---- MODULE Spec2Model ----
(***************************************************************************)
(* Review sessions of the srs flashcard tool: the core ReviewSession       *)
(* (core/scheduler.go), the card files it persists to (core/card.go) and   *)
(* the front ends that build sessions (review command, turn-based review,  *)
(* the rate_card tool of both MCP servers).                                *)
(*                                                                         *)
(* Time is a count of clock ticks.  The card file keeps `due` to the       *)
(* second (time.RFC3339), the process keeps it to the tick, so a card that *)
(* is written and parsed again loses the sub-second part of its due time.  *)
(* The delays of the go-fsrs scheduler keep their ratios (1, 5 and 10      *)
(* minutes, whole days) on a scaled clock on which a minute lasts one      *)
(* second.  Stability, difficulty, elapsed_days, scheduled_days and lapses *)
(* are numerics of the scheduler that no session operation reads; they are *)
(* left out of the card record.  Question and answer text is left out too. *)
(***************************************************************************)
EXTENDS Integers, Sequences, FiniteSets, TLC

\* ----- bounds of the model ------------------------------------------------
NumCards == 2          \* card files in the deck
MaxTime == 3           \* the clock stops advancing here
MaxLen == 3            \* longest session sequence explored
MaxObjs == 4           \* Card objects allocated by one review process
MaxReps == 2           \* ratings applied to one card object or file
MaxIntervalDays == 1   \* longest day-scale interval the scheduler picks
MaxFaults == 1         \* I/O failures injected in one behaviour
TicksPerSecond == 2    \* clock resolution below the second
IntBits == 4           \* width of int and uint64 in the text-level model
MaxLines == 3          \* lines of text in a card file before it is rated
MaxFields == 2         \* fields of a metadata line drawn freely
NumDeckCards == 3      \* card files of a flat deck
NumProcs == 2          \* rate operations under way at the same time
MaxAnswer == 1         \* characters of the answer typed in the review
MaxPath == 4           \* characters of a base deck path
MaxSessionTime == 14   \* the clock of a long review session stops here
MaxSessionLen == 6     \* longest sequence of a long review session
MaxSessionReps == 3    \* ratings applied to one card in a long review session
MaxReloadLen == 4      \* longest sequence of a session with reloaded cards
MaxRequests == 2       \* lines that arrive on the standard input of the server

Paths == 1..NumCards
Minute == TicksPerSecond
Day == 24 * 60 * Minute

\* fsrs.Rating and fsrs.State as the library numbers them
Again == 1
Hard == 2
Good == 3
Easy == 4
Ratings == {Again, Hard, Good, Easy}
New == 0
Learning == 1
Review == 2
Relearning == 3

VARIABLES
  now,      \* the wall clock, in ticks
  files,    \* path -> content of the card file (its metadata line)
  heap,     \* the Card objects of the review process; cards holds pointers
  cards,    \* ReviewSession.cards, a sequence of pointers into heap
  current,  \* ReviewSession.current, 0-based
  faults,   \* I/O failures so far
  ret,      \* the latest operation: what it returned, the calls it made,
            \* the session it built and the session it left behind
  pc        \* the processes under way: the position and the locals of each

vars == <<now, files, heap, cards, current, faults, ret, pc>>

\* ----- card files ---------------------------------------------------------
\* A file without a metadata line, and a file cut short by a failed write.
NoMeta == [kind |-> "nometa"]
Truncated == [kind |-> "truncated"]

StateToString(state) ==
  CASE state = New -> "New"
    [] state = Learning -> "Learning"
    [] state = Review -> "Review"
    [] state = Relearning -> "Relearning"
    [] OTHER -> "New"

StringToState_AnyCase(s) ==
  CASE s = "New" -> New
    [] s \in {"Learning", "learning"} -> Learning
    [] s = "Review" -> Review
    [] s = "Relearning" -> Relearning
    [] OTHER -> New

StringToState(s) ==
  CASE s = "New" -> New
    [] s = "Learning" -> Learning
    [] s = "Review" -> Review
    [] s = "Relearning" -> Relearning
    [] OTHER -> New

\* Due.Format(time.RFC3339): whole seconds; time.Parse gives them back.
FormatRFC3339(t) == t \div TicksPerSecond
ParseRFC3339(s) == s * TicksPerSecond

\* fsrs.NewCard(): the zero time, state New, no repetitions.
NewCard == [Due |-> 0, State |-> New, Reps |-> 0]

\* The line UpdateFSRSMetadata builds with fmt.Sprintf.
FsrsLine(c) ==
  [kind |-> "meta", due |-> FormatRFC3339(c.Due), reps |-> c.Reps,
   state |-> StateToString(c.State)]

parseFSRSMetadata(m) ==
  [Due |-> ParseRFC3339(m.due), State |-> StringToState(m.state), Reps |-> m.reps]

\* ParseCard on a readable file.
ParseCard(p, fs) ==
  LET fsrsCard == IF fs[p].kind = "meta" THEN parseFSRSMetadata(fs[p]) ELSE NewCard
  IN [FilePath |-> p, Due |-> fsrsCard.Due, State |-> fsrsCard.State,
      Reps |-> fsrsCard.Reps, ReviewLog |-> <<>>]

\* ----- the scheduler (go-fsrs, called by RateCard) ------------------------
NextState(state, rating) ==
  CASE state = New -> IF rating = Easy THEN Review ELSE Learning
    [] state \in {Learning, Relearning} ->
         IF rating \in {Good, Easy} THEN Review ELSE state
    [] OTHER -> IF rating = Again THEN Relearning ELSE Review

\* days is the interval the scheduler's numerics pick for a day-scale step.
NextDue(state, rating, t, days) ==
  CASE state = New ->
         (CASE rating = Again -> t + Minute
            [] rating = Hard -> t + 5 * Minute
            [] rating = Good -> t + 10 * Minute
            [] OTHER -> t + days * Day)
    [] state \in {Learning, Relearning} ->
         (CASE rating = Again -> t + 5 * Minute
            [] rating = Hard -> t + 10 * Minute
            [] OTHER -> t + days * Day)
    [] OTHER -> IF rating = Again THEN t + 5 * Minute ELSE t + days * Day

\* scheduler.Repeat(card.FSRSCard, now)[rating], stored back into the card
\* together with its review log entry.
Repeat(c, rating, t, days) ==
  [c EXCEPT !.Due = NextDue(c.State, rating, t, days),
            !.State = NextState(c.State, rating),
            !.Reps = c.Reps + 1,
            !.ReviewLog = Append(c.ReviewLog, rating)]

\* ----- UpdateFSRSMetadata --------------------------------------------------
IOs == {"ok", "read_fails", "open_fails", "write_fails"}

UpdateFSRSMetadata_Swallow(c, fs, io) ==
  CASE io = "read_fails" -> [files |-> fs, err |-> FALSE, calls |-> <<"ReadFile">>]
    [] io = "open_fails" ->
         [files |-> fs, err |-> FALSE, calls |-> <<"ReadFile", "WriteFile">>]
    [] io = "write_fails" ->
         [files |-> [fs EXCEPT ![c.FilePath] = Truncated], err |-> FALSE,
          calls |-> <<"ReadFile", "WriteFile">>]
    [] OTHER ->
         [files |-> [fs EXCEPT ![c.FilePath] = FsrsLine(c)], err |-> FALSE,
          calls |-> <<"ReadFile", "WriteFile">>]

\* os.ReadFile, then os.WriteFile of the new content: a whole-file overwrite.
\* A write that fails after the file was opened leaves it cut short.
UpdateFSRSMetadata(c, fs, io) ==
  CASE io = "read_fails" -> [files |-> fs, err |-> TRUE, calls |-> <<"ReadFile">>]
    [] io = "open_fails" ->
         [files |-> fs, err |-> TRUE, calls |-> <<"ReadFile", "WriteFile">>]
    [] io = "write_fails" ->
         [files |-> [fs EXCEPT ![c.FilePath] = Truncated], err |-> TRUE,
          calls |-> <<"ReadFile", "WriteFile">>]
    [] OTHER ->
         [files |-> [fs EXCEPT ![c.FilePath] = FsrsLine(c)], err |-> FALSE,
          calls |-> <<"ReadFile", "WriteFile">>]

\* ----- ReviewSession -------------------------------------------------------
\* GetDueCards: the cards with Due.Before(now) || Due.Equal(now), in order
GetDueCards_All(cs, t) == cs

GetDueCards_Strict(cs, t) == SelectSeq(cs, LAMBDA c : c.Due < t)

GetDueCards(cs, t) == SelectSeq(cs, LAMBDA c : c.Due < t \/ c.Due = t)

\* the test of the requeue scan: Due.Before(now) || Due.Equal(now)
IsDue_Strict(c, t) == c.Due < t

IsDue(c, t) == c.Due < t \/ c.Due = t

NewReviewSession(cs) == [cards |-> cs, current |-> 0]

HasNextOp_Le(cs, cur) == cur <= Len(cs)

HasNextOp(cs, cur) == cur < Len(cs)

CurrentCardOp(cs, cur) ==
  IF cur >= Len(cs) THEN [err |-> "no more cards in session", val |-> <<>>]
  ELSE [err |-> "", val |-> <<cs[cur + 1]>>]

ProgressOp_ZeroBased(cs, cur) == <<cur, Len(cs)>>

ProgressOp(cs, cur) == <<cur + 1, Len(cs)>>

UpdateCurrentCardOp_InPlace(cs, cur, hp, card) ==
  IF cur < Len(cs)
  THEN [cards |-> cs, heap |-> [hp EXCEPT ![cs[cur + 1]] = card]]
  ELSE [cards |-> cs, heap |-> hp]

\* UpdateCurrentCard(card): rs.cards[rs.current] = card.  The card is an
\* object of its own; the object it replaces is collected, and its slot of
\* the heap reused, unless another position still points to it.
UpdateCurrentCardOp(cs, cur, hp, card) ==
  IF cur < Len(cs)
  THEN IF \E k \in 1..Len(cs) : k # cur + 1 /\ cs[k] = cs[cur + 1]
       THEN [cards |-> [cs EXCEPT ![cur + 1] = Len(hp) + 1],
             heap |-> Append(hp, card)]
       ELSE [cards |-> cs, heap |-> [hp EXCEPT ![cs[cur + 1]] = card]]
  ELSE [cards |-> cs, heap |-> hp]

\* the inner loop of the requeue scan: is a card with this path in the tail
AlreadyQueued(remainingCards, path, hp) ==
  \E k \in 1..Len(remainingCards) : hp[remainingCards[k]].FilePath = path

RECURSIVE RequeueScan_DropsHead(_, _, _, _, _, _)
RequeueScan_DropsHead(i, cur, cs, remainingCards, hp, t) ==
  IF i > cur THEN SubSeq(cs, 2, Len(cs))
  ELSE LET checkCard == cs[i + 1]
       IN IF IsDue(hp[checkCard], t)
             /\ ~AlreadyQueued(remainingCards, hp[checkCard].FilePath, hp)
          THEN RequeueScan_DropsHead(i + 1, cur, Append(cs, checkCard),
                                     remainingCards, hp, t)
          ELSE RequeueScan_DropsHead(i + 1, cur, cs, remainingCards, hp, t)

\* the requeue scan, for i := i; i <= cur; i++
RECURSIVE RequeueScan(_, _, _, _, _, _)
RequeueScan(i, cur, cs, remainingCards, hp, t) ==
  IF i > cur THEN cs
  ELSE LET checkCard == cs[i + 1]
       IN IF IsDue(hp[checkCard], t)
             /\ ~AlreadyQueued(remainingCards, hp[checkCard].FilePath, hp)
          THEN RequeueScan(i + 1, cur, Append(cs, checkCard), remainingCards, hp, t)
          ELSE RequeueScan(i + 1, cur, cs, remainingCards, hp, t)

RateCardOp_EndAdvances(cs, cur, hp, fs, rating, t, days, io) ==
  IF cur >= Len(cs)
  THEN [cards |-> cs, current |-> cur + 1, heap |-> hp, files |-> fs,
        err |-> "", calls |-> <<>>]
  ELSE LET card == cs[cur + 1]
           hp2 == [hp EXCEPT ![card] = Repeat(hp[card], rating, t, days)]
           upd == UpdateFSRSMetadata(hp2[card], fs, io)
           remainingCards == SubSeq(cs, cur + 2, Len(cs))
       IN IF upd.err
          THEN [cards |-> cs, current |-> cur, heap |-> hp2, files |-> upd.files,
                err |-> "failed to update card metadata",
                calls |-> <<"Repeat">> \o upd.calls]
          ELSE [cards |-> RequeueScan(0, cur, cs, remainingCards, hp2, t),
                current |-> cur + 1, heap |-> hp2, files |-> upd.files,
                err |-> "", calls |-> <<"Repeat">> \o upd.calls]

RateCardOp_WritesAppended(cs, cur, hp, fs, rating, t, days, io) ==
  IF cur >= Len(cs)
  THEN [cards |-> cs, current |-> cur, heap |-> hp, files |-> fs,
        err |-> "no cards available to rate", calls |-> <<>>]
  ELSE LET card == cs[cur + 1]
           hp2 == [hp EXCEPT ![card] = Repeat(hp[card], rating, t, days)]
           upd == UpdateFSRSMetadata(hp2[card], fs, io)
           remainingCards == SubSeq(cs, cur + 2, Len(cs))
           cs2 == RequeueScan(0, cur, cs, remainingCards, hp2, t)
           appended == {cs2[k] : k \in (Len(cs) + 1)..Len(cs2)}
       IN IF upd.err
          THEN [cards |-> cs, current |-> cur, heap |-> hp2, files |-> upd.files,
                err |-> "failed to update card metadata",
                calls |-> <<"Repeat">> \o upd.calls]
          ELSE [cards |-> cs2, current |-> cur + 1, heap |-> hp2,
                files |-> [q \in DOMAIN fs |->
                             IF \E c \in appended : hp2[c].FilePath = q
                             THEN FsrsLine(hp2[CHOOSE c \in appended :
                                                 hp2[c].FilePath = q])
                             ELSE upd.files[q]],
                err |-> "",
                calls |-> <<"Repeat">> \o upd.calls
                            \o [k \in 1..(Len(cs2) - Len(cs)) |-> "WriteFile"]]

\* ReviewSession.RateCard on the session (cs, cur) over the objects hp.
RateCardOp(cs, cur, hp, fs, rating, t, days, io) ==
  IF cur >= Len(cs)
  THEN [cards |-> cs, current |-> cur, heap |-> hp, files |-> fs,
        err |-> "no cards available to rate", calls |-> <<>>]
  ELSE LET card == cs[cur + 1]
           hp2 == [hp EXCEPT ![card] = Repeat(hp[card], rating, t, days)]
           upd == UpdateFSRSMetadata(hp2[card], fs, io)
           remainingCards == SubSeq(cs, cur + 2, Len(cs))
       IN IF upd.err
          THEN [cards |-> cs, current |-> cur, heap |-> hp2, files |-> upd.files,
                err |-> "failed to update card metadata",
                calls |-> <<"Repeat">> \o upd.calls]
          ELSE [cards |-> RequeueScan(0, cur, cs, remainingCards, hp2, t),
                current |-> cur + 1, heap |-> hp2, files |-> upd.files,
                err |-> "", calls |-> <<"Repeat">> \o upd.calls]

\* ----- initial state -------------------------------------------------------
InitMetas ==
  {NoMeta, [kind |-> "meta", due |-> 0, reps |-> 1, state |-> "Learning"]}

\* no session was built, or none was left behind, by an operation
NoSession == [cards |-> <<>>, current |-> 0, at |-> 0]

Ret(op, args, err, val, calls, blt, final) ==
  [op |-> op, args |-> args, err |-> err, val |-> val, calls |-> calls,
   built |-> blt, final |-> final]

\* the cards FindCards parses, in walk order, leaving out unreadable files
RECURSIVE FindCards(_, _, _)
FindCards(p, unreadable, fs) ==
  IF p > NumCards THEN <<>>
  ELSE (IF p \in unreadable THEN <<>> ELSE <<ParseCard(p, fs)>>)
       \o FindCards(p + 1, unreadable, fs)

\* the pointers 1..n to n freshly allocated objects
Pointers(n) == [i \in 1..n |-> i]

\* The state after construction: a session built by NewReviewSession over the
\* due cards of the deck, as reviewCommand builds it.
Init ==
  /\ now = 0
  /\ files \in [Paths -> InitMetas]
  /\ heap = GetDueCards(FindCards(1, {}, files), now)
  /\ cards = NewReviewSession(Pointers(Len(heap))).cards
  /\ current = NewReviewSession(Pointers(Len(heap))).current
  /\ faults = 0
  /\ ret = Ret("init", <<>>, "", <<>>, <<>>, NoSession, NoSession)
  /\ pc = <<>>

\* ----- actions -------------------------------------------------------------
\* time passes between two operations
Tick ==
  /\ now < MaxTime
  /\ now' = now + 1
  /\ ret' = Ret("Tick", <<>>, "", <<>>, <<>>, NoSession, NoSession)
  /\ UNCHANGED <<files, heap, cards, current, faults>>
  /\ UNCHANGED pc

\* ReviewSession.CurrentCard
CurrentCard ==
  /\ LET r == CurrentCardOp(cards, current)
     IN ret' = Ret("CurrentCard", <<>>, r.err, r.val, <<>>, NoSession, NoSession)
  /\ UNCHANGED <<now, files, heap, cards, current, faults>>
  /\ UNCHANGED pc

\* ReviewSession.HasNext
HasNext ==
  /\ ret' = Ret("HasNext", <<>>, "", <<IF HasNextOp(cards, current) THEN 1 ELSE 0>>,
                <<>>, NoSession, NoSession)
  /\ UNCHANGED <<now, files, heap, cards, current, faults>>
  /\ UNCHANGED pc

\* ReviewSession.Progress
Progress ==
  /\ ret' = Ret("Progress", <<>>, "", ProgressOp(cards, current), <<>>, NoSession,
                NoSession)
  /\ UNCHANGED <<now, files, heap, cards, current, faults>>
  /\ UNCHANGED pc

\* ReviewSession.RateCard
RateCard(rating, days, io) ==
  /\ io # "ok" => faults < MaxFaults /\ current < Len(cards)
  /\ faults' = IF io = "ok" THEN faults ELSE faults + 1
  /\ LET r == RateCardOp(cards, current, heap, files, rating, now, days, io)
     IN /\ Len(r.cards) <= MaxLen
        /\ current < Len(cards) => Len(heap[cards[current + 1]].ReviewLog) < MaxReps
        /\ cards' = r.cards
        /\ current' = r.current
        /\ heap' = r.heap
        /\ files' = r.files
        /\ ret' = Ret("RateCard", <<>>, r.err, <<>>, r.calls, NoSession, NoSession)
  /\ UNCHANGED now
  /\ UNCHANGED pc

\* editCard: the editor run on the file of the current card; the user takes
\* the metadata line out of the file.
editCard ==
  /\ current < Len(cards)
  /\ LET p == heap[cards[current + 1]].FilePath
     IN /\ files[p].kind = "meta"
        /\ files' = [files EXCEPT ![p] = NoMeta]
  /\ ret' = Ret("editCard", <<>>, "", <<>>, <<>>, NoSession, NoSession)
  /\ UNCHANGED <<now, heap, cards, current, faults>>
  /\ UNCHANGED pc

\* ReviewSession.UpdateCurrentCard with the card the caller parsed again from
\* file p: the file of the current card, any file when there is none.
UpdateCurrentCard(p) ==
  /\ current < Len(cards) => p = heap[cards[current + 1]].FilePath
  /\ LET r == UpdateCurrentCardOp(cards, current, heap, ParseCard(p, files))
     IN /\ Len(r.heap) <= MaxObjs
        /\ cards' = r.cards
        /\ heap' = r.heap
  /\ ret' = Ret("UpdateCurrentCard", <<>>, "", <<>>, <<"ParseCard">>, NoSession,
                NoSession)
  /\ UNCHANGED <<now, files, current, faults>>
  /\ UNCHANGED pc

\* ----- a long review session -----------------------------------------------
\* RateCard called over and over on one session, with time passing between
\* the calls: long enough for cards rated twice to come due twice.
Wait ==
  /\ now < MaxSessionTime
  /\ now' = now + 1
  /\ ret' = Ret("Wait", <<>>, "", <<>>, <<>>, NoSession, NoSession)
  /\ UNCHANGED <<files, heap, cards, current, faults, pc>>

Rate(rating, days) ==
  /\ current < Len(cards)
       => Len(heap[cards[current + 1]].ReviewLog) < MaxSessionReps
  /\ LET r == RateCardOp(cards, current, heap, files, rating, now, days, "ok")
     IN /\ Len(r.cards) <= MaxSessionLen
        /\ cards' = r.cards
        /\ current' = r.current
        /\ heap' = r.heap
        /\ files' = r.files
        /\ ret' = Ret("RateCard", <<rating>>, r.err, <<>>, r.calls, NoSession,
                      NoSession)
  /\ UNCHANGED <<now, faults, pc>>

\* the current card is parsed again from its file and put in the session,
\* as StartTUI does after an edit.  A card that was not rated since it was
\* parsed is left alone: the card parsed again would be equal to it.
Reload ==
  /\ current < Len(cards)
  /\ heap[cards[current + 1]].ReviewLog # <<>>
  /\ LET p == heap[cards[current + 1]].FilePath
         r == UpdateCurrentCardOp(cards, current, heap, ParseCard(p, files))
     IN /\ Len(r.heap) <= MaxObjs
        /\ cards' = r.cards
        /\ heap' = r.heap
  /\ ret' = Ret("UpdateCurrentCard", <<>>, "", <<>>, <<"ParseCard">>, NoSession,
                NoSession)
  /\ UNCHANGED <<now, files, current, faults, pc>>

NextSession ==
  \/ Wait
  \/ \E rating \in {Again, Good}, days \in 1..MaxIntervalDays : Rate(rating, days)

SpecSession == Init /\ [][NextSession]_vars

\* ----- a session to its end --------------------------------------------------
\* pc holds what the session went through: the length of the sequence it was
\* built with, the successful RateCard calls, whether every rating so far
\* left its card with a due later than every rating since, and whether the
\* ratings have come to schedule every card beyond the end of the clock.
Rated(hp) == {k \in 1..Len(hp) : hp[k].ReviewLog # <<>>}

InitTermination ==
  /\ now = 0
  /\ files \in [Paths -> InitMetas]
  /\ heap = GetDueCards(FindCards(1, {}, files), now)
  /\ cards = NewReviewSession(Pointers(Len(heap))).cards
  /\ current = NewReviewSession(Pointers(Len(heap))).current
  /\ faults = 0
  /\ ret = Ret("init", <<>>, "", <<>>, <<>>, NoSession, NoSession)
  /\ pc = [initial |-> Len(cards), rates |-> 0, future |-> TRUE, phase |-> "any"]

\* a successful RateCard, any rating
RateAny(rating, days) ==
  /\ pc.phase = "any"
  /\ current < Len(cards)
  /\ Len(heap[cards[current + 1]].ReviewLog) < MaxSessionReps
  /\ LET r == RateCardOp(cards, current, heap, files, rating, now, days, "ok")
     IN /\ Len(r.cards) <= MaxSessionLen
        /\ cards' = r.cards
        /\ current' = r.current
        /\ heap' = r.heap
        /\ files' = r.files
        /\ pc' = [pc EXCEPT !.rates = @ + 1,
                            !.future = @ /\ \A k \in Rated(r.heap) :
                                               r.heap[k].Due > now]
        /\ ret' = Ret("RateCard", <<rating>>, r.err, <<>>, r.calls, NoSession,
                      NoSession)
  /\ UNCHANGED <<now, faults>>

\* a successful RateCard that leaves its card with a due later than every
\* time to come; from the first of them on, every rating is one
RateFuture(rating, days) ==
  /\ current < Len(cards)
  /\ LET r == RateCardOp(cards, current, heap, files, rating, now, days, "ok")
     IN /\ r.heap[cards[current + 1]].Due > MaxSessionTime
        /\ cards' = r.cards
        /\ current' = r.current
        /\ heap' = r.heap
        /\ files' = r.files
        /\ pc' = [pc EXCEPT !.rates = @ + 1,
                            !.future = @ /\ \A k \in Rated(r.heap) :
                                               r.heap[k].Due > now,
                            !.phase = "future"]
        /\ ret' = Ret("RateCard", <<rating>>, r.err, <<>>, r.calls, NoSession,
                      NoSession)
  /\ UNCHANGED <<now, faults>>

NextTermination ==
  \/ Wait
  \/ \E rating \in {Again, Good}, days \in 1..MaxIntervalDays : RateAny(rating, days)
  \/ \E rating \in {Again, Good}, days \in 1..MaxIntervalDays :
       RateFuture(rating, days)

\* the user keeps rating
SpecTermination ==
  /\ InitTermination
  /\ [][NextTermination]_vars
  /\ WF_vars(\E rating \in {Again, Good}, days \in 1..MaxIntervalDays :
               RateFuture(rating, days))

\* RateCard in a session whose cards are parsed again now and then
RateReloaded(rating, days) ==
  /\ current < Len(cards) => Len(heap[cards[current + 1]].ReviewLog) < MaxReps
  /\ LET r == RateCardOp(cards, current, heap, files, rating, now, days, "ok")
     IN /\ Len(r.cards) <= MaxReloadLen
        /\ cards' = r.cards
        /\ current' = r.current
        /\ heap' = r.heap
        /\ files' = r.files
        /\ ret' = Ret("RateCard", <<rating>>, r.err, <<>>, r.calls, NoSession,
                      NoSession)
  /\ UNCHANGED <<now, faults, pc>>

NextReload ==
  \/ Tick
  \/ Reload
  \/ \E rating \in {Again, Good}, days \in 1..MaxIntervalDays :
       RateReloaded(rating, days)

SpecReload == Init /\ [][NextReload]_vars

\* ----- front ends -----------------------------------------------------------
\* strconv.Atoi on the rating texts of the model
Numerals == {"0", "1", "2", "3", "4", "5"}

Atoi(text) ==
  CASE text = "0" -> 0 [] text = "1" -> 1 [] text = "2" -> 2 [] text = "3" -> 3
    [] text = "4" -> 4 [] text = "5" -> 5

\* strconv.Itoa
Itoa(n) == ToString(n)

\* a JSON argument that is absent, a number (in halves, so that 9 is 4.5) or
\* a string
Absent == [kind |-> "absent"]
Number(h) == [kind |-> "number", halves |-> h]
String(text) == [kind |-> "string", text |-> text]

\* int(ratingFloat): truncation
IntOf(h) == h \div 2

\* RatingFromInt: 1..4 to the scheduler's ratings, anything else an error
RatingFromInt(rating) ==
  IF rating \in Ratings THEN [err |-> FALSE, val |-> rating]
  ELSE [err |-> TRUE, val |-> Again]

\* handleRateCard's range test: rating < 1 || rating > 4
OutOfRange_Loose(rating) == rating < 0 \/ rating > 5

OutOfRange(rating) == rating < 1 \/ rating > 4

\* ReviewSession.updateCard of package main: Repeat, then updateFSRSMetadata
updateCard(card, fs, rating, t, days, io) ==
  LET c2 == Repeat(card, rating, t, days)
      upd == UpdateFSRSMetadata(c2, fs, io)
  IN [card |-> c2, files |-> upd.files, err |-> upd.err,
      calls |-> <<"Repeat">> \o upd.calls]

\* the offsets from UTC, in seconds, of the time zones a process runs in
ZoneOffsets == {0, 1}

\* Due.Format("2006-01-02T15:04:05Z"): the wall clock of the zone of the
\* process, to the second, followed by the letter Z whatever the zone.  A
\* timestamp text is its wall-clock reading and the offset it names.
FormatZ(t, zone) == [wall |-> FormatRFC3339(t) + zone, offset |-> 0]

\* the result map of rate_card in mcp_simple.go: new_due_date, new_state,
\* reps
RateResult(c, zone) == <<FormatZ(c.Due, zone), c.State, c.Reps>>

\* the result map of rate_card in mcp/server.go: new_due_date as the time
\* value, new_state by name, reps
ServerRateResult(c) == <<c.Due, StateToString(c.State), c.Reps>>

\* faults an operation may still inject
MayFail(io) == io # "ok" => faults < MaxFaults

\* repetitions recorded in the files so far
RECURSIVE TotalReps(_, _)
TotalReps(p, fs) ==
  IF p > NumCards THEN 0
  ELSE (IF fs[p].kind = "meta" THEN fs[p].reps ELSE 0) + TotalReps(p + 1, fs)

MayRate == TotalReps(1, files) < MaxReps

\* reviewCommand in interactive mode: findCards, getDueCards and, with due
\* cards, NewReviewSession; the review process then holds the session.
ReviewCommand(unreadable) ==
  /\ unreadable # {} => faults < MaxFaults
  /\ faults' = IF unreadable = {} THEN faults ELSE faults + 1
  /\ LET dueCards == GetDueCards(FindCards(1, unreadable, files), now)
         rs == NewReviewSession(Pointers(Len(dueCards)))
     IN IF Len(dueCards) = 0
        THEN /\ UNCHANGED <<heap, cards, current>>
             /\ ret' = Ret("ReviewCommand", <<>>, "", <<>>, <<"FindCards">>,
                           NoSession, NoSession)
        ELSE /\ heap' = dueCards
             /\ cards' = rs.cards
             /\ current' = rs.current
             /\ ret' = Ret("ReviewCommand", <<>>, "", <<>>,
                           <<"FindCards", "NewReviewSession">>,
                           [cards |-> dueCards, current |-> rs.current, at |-> now],
                           NoSession)
  /\ UNCHANGED <<now, files>>
  /\ UNCHANGED pc

\* reviewCommand in turn-based mode, one process per invocation:
\* findCards, getDueCards, NewReviewSession, StartTurnBased(rating).  The
\* scan reads the clock again, dt ticks after updateCard did.
reviewTurnBased(unreadable, rating, days, io, dt) ==
  /\ unreadable # {} \/ io # "ok" => faults < MaxFaults
  /\ now + dt <= MaxTime
  /\ LET dueCards == GetDueCards(FindCards(1, unreadable, files), now)
         rs == NewReviewSession(Pointers(Len(dueCards)))
         blt == [cards |-> dueCards, current |-> rs.current, at |-> now]
         shown(cs, cur) == IF cur >= Len(cs) THEN <<>> ELSE <<cs[cur + 1]>>
         args == <<rating>>
     IN IF Len(dueCards) = 0
        THEN /\ unreadable = {} => io = "ok" /\ dt = 0
             /\ io = "ok" /\ dt = 0
             /\ faults' = IF unreadable = {} THEN faults ELSE faults + 1
             /\ ret' = Ret("TurnBased", args, "", <<>>, <<"FindCards">>,
                           NoSession, NoSession)
             /\ UNCHANGED <<now, files>>
        ELSE IF rating = ""
        THEN /\ io = "ok" /\ dt = 0
             /\ faults' = IF unreadable = {} THEN faults ELSE faults + 1
             /\ ret' = Ret("TurnBased", args, "", shown(rs.cards, rs.current),
                           <<"FindCards", "NewReviewSession">>, blt,
                           [cards |-> dueCards, current |-> rs.current, at |-> now])
             /\ UNCHANGED <<now, files>>
        ELSE IF rating \notin Numerals \/ Atoi(rating) < 1 \/ Atoi(rating) > 4
        THEN /\ io = "ok" /\ dt = 0
             /\ faults' = IF unreadable = {} THEN faults ELSE faults + 1
             /\ ret' = Ret("TurnBased", args, "invalid rating", <<>>,
                           <<"FindCards", "NewReviewSession">>, blt,
                           [cards |-> dueCards, current |-> rs.current, at |-> now])
             /\ UNCHANGED <<now, files>>
        ELSE LET u == updateCard(dueCards[1], files, Atoi(rating), now, days, io)
                 hp == [dueCards EXCEPT ![1] = u.card]
                 cs == RequeueScan(0, rs.current, rs.cards,
                                   SubSeq(rs.cards, rs.current + 2, Len(rs.cards)),
                                   hp, now + dt)
             IN /\ MayRate
                /\ faults' = IF unreadable = {} /\ io = "ok" THEN faults
                             ELSE faults + 1
                /\ files' = u.files
                /\ IF u.err
                   THEN /\ dt = 0
                        /\ now' = now
                        /\ ret' = Ret("TurnBased", args, "failed to rate card", <<>>,
                                      <<"FindCards", "NewReviewSession">> \o u.calls,
                                      blt,
                                      [cards |-> hp, current |-> rs.current,
                                       at |-> now])
                   ELSE /\ now' = now + dt
                        /\ ret' = Ret("TurnBased", args, "",
                                      shown(cs, rs.current + 1),
                                      <<"FindCards", "NewReviewSession">> \o u.calls,
                                      blt,
                                      [cards |-> [k \in 1..Len(cs) |-> hp[cs[k]]],
                                       current |-> rs.current + 1, at |-> now + dt])
  /\ UNCHANGED <<heap, cards, current>>

\* a turn-based invocation among the other front ends
TurnBased(unreadable, rating, days, io, dt) ==
  /\ reviewTurnBased(unreadable, rating, days, io, dt)
  /\ UNCHANGED pc

\* a path under which the deck holds no file
NoSuchPath == NumCards + 1

parseCard_NewOnError(p, fs, io) ==
  IF p \notin DOMAIN fs \/ io = "parse_fails"
  THEN [err |-> FALSE,
        card |-> [FilePath |-> p, Due |-> NewCard.Due, State |-> NewCard.State,
                  Reps |-> NewCard.Reps, ReviewLog |-> <<>>]]
  ELSE [err |-> FALSE, card |-> ParseCard(p, fs)]

\* parseCard / core.ParseCard as the tools call it: os.Open fails on a path
\* that does not exist, os.Open or the scanner on a file that cannot be read
parseCard(p, fs, io) ==
  IF p \notin DOMAIN fs \/ io = "parse_fails"
  THEN [err |-> TRUE, card |-> NewCard]
  ELSE [err |-> FALSE, card |-> ParseCard(p, fs)]

\* handleRateCard of mcp_simple.go, the rate_card tool: validation,
\* parseCard, rateCard (NewReviewSession over the one card, updateCard).
handleRateCard(filePath, rating, days, io, zone) ==
  /\ MayFail(io)
  /\ zone # 0 => io = "ok" /\ filePath # Absent /\ rating.kind = "number"
  /\ (filePath # Absent /\ filePath.text \notin DOMAIN files) => io = "ok"
  /\ LET args == [file_path |-> filePath, rating |-> rating, fault |-> io]
         fail(msg, calls) ==
           /\ ret' = Ret("handleRateCard", args, msg, <<>>, calls, NoSession,
                         NoSession)
           /\ UNCHANGED files
     IN IF filePath = Absent
        THEN io = "ok" /\ UNCHANGED faults /\ fail("file_path is required", <<>>)
        ELSE IF rating.kind # "number"
        THEN io = "ok" /\ UNCHANGED faults
             /\ fail("rating is required (1-4)", <<>>)
        ELSE IF OutOfRange(IntOf(rating.halves))
        THEN io = "ok" /\ UNCHANGED faults
             /\ fail("rating must be an integer between 1-4", <<>>)
        ELSE IF parseCard(filePath.text, files, io).err
        THEN /\ faults' = IF io = "ok" THEN faults ELSE faults + 1
             /\ fail("error parsing card", <<"ParseCard">>)
        ELSE IF IntOf(rating.halves) \notin Ratings
        THEN io = "ok" /\ UNCHANGED faults
             /\ fail("error rating card", <<"ParseCard">>)
        ELSE LET card == parseCard(filePath.text, files, io).card
                 rs == NewReviewSession(<<1>>)
                 u == updateCard(card, files, IntOf(rating.halves), now, days, io)
             IN /\ MayRate
                /\ faults' = IF io = "ok" THEN faults ELSE faults + 1
                /\ files' = u.files
                /\ ret' = Ret("handleRateCard", args,
                              IF u.err THEN "error rating card" ELSE "",
                              IF u.err THEN <<>> ELSE RateResult(u.card, zone),
                              <<"ParseCard", "NewReviewSession">> \o u.calls,
                              [cards |-> <<card>>, current |-> rs.current,
                               at |-> now],
                              [cards |-> <<u.card>>, current |-> rs.current,
                               at |-> now])
  /\ UNCHANGED <<now, heap, cards, current>>
  /\ UNCHANGED pc

\* SRSServer.handleRateCard of mcp/server.go: validation, core.ParseCard,
\* core.RatingFromInt, core.NewReviewSession over the one card, RateCard.
SRSServer_handleRateCard(filePath, rating, days, io) ==
  /\ MayFail(io)
  /\ (filePath # Absent /\ filePath.text \notin DOMAIN files) => io = "ok"
  /\ LET args == [file_path |-> filePath, rating |-> rating, fault |-> io]
         fail(msg, calls) ==
           /\ ret' = Ret("SRSServer.handleRateCard", args, msg, <<>>, calls,
                         NoSession, NoSession)
           /\ UNCHANGED files
         ratingStr == IF rating.kind = "string" THEN rating.text
                      ELSE Itoa(IntOf(rating.halves))
     IN IF filePath = Absent
        THEN io = "ok" /\ UNCHANGED faults /\ fail("file_path is required", <<>>)
        ELSE IF rating = Absent
        THEN io = "ok" /\ UNCHANGED faults
             /\ fail("rating is required (1-4)", <<>>)
        ELSE IF ratingStr \notin Numerals \/ Atoi(ratingStr) < 1
                \/ Atoi(ratingStr) > 4
        THEN io = "ok" /\ UNCHANGED faults
             /\ fail("rating must be an integer between 1-4", <<>>)
        ELSE IF parseCard(filePath.text, files, io).err
        THEN /\ faults' = IF io = "ok" THEN faults ELSE faults + 1
             /\ fail("Error parsing card", <<"ParseCard">>)
        ELSE IF RatingFromInt(Atoi(ratingStr)).err
        THEN io = "ok" /\ UNCHANGED faults
             /\ fail("Invalid rating", <<"ParseCard">>)
        ELSE LET card == parseCard(filePath.text, files, io).card
                 rs == NewReviewSession(<<1>>)
                 r == RateCardOp(rs.cards, rs.current, <<card>>, files,
                                 RatingFromInt(Atoi(ratingStr)).val, now, days, io)
             IN /\ MayRate
                /\ faults' = IF io = "ok" THEN faults ELSE faults + 1
                /\ files' = r.files
                /\ ret' = Ret("SRSServer.handleRateCard", args,
                              IF r.err # "" THEN "Error rating card" ELSE "",
                              IF r.err # "" THEN <<>> ELSE ServerRateResult(r.heap[1]),
                              <<"ParseCard", "NewReviewSession">> \o r.calls,
                              [cards |-> <<card>>, current |-> rs.current,
                               at |-> now],
                              [cards |-> [k \in 1..Len(r.cards) |-> r.heap[r.cards[k]]],
                               current |-> r.current, at |-> now])
  /\ UNCHANGED <<now, heap, cards, current>>
  /\ UNCHANGED pc

\* rateCommand, the CLI command srs rate CARD RATING: strconv.Atoi, the
\* range test, os.Stat, parseCard, Repeat and updateFSRSMetadata on the card
\* itself, without a session.
rateCommand(cardPath, ratingStr, days, io) ==
  /\ MayFail(io)
  /\ cardPath \notin DOMAIN files => io = "ok"
  /\ LET args == [file_path |-> String(cardPath), rating |-> String(ratingStr),
                  fault |-> io]
         fail(msg, calls) ==
           /\ ret' = Ret("rateCommand", args, msg, <<>>, calls, NoSession,
                         NoSession)
           /\ UNCHANGED files
     IN IF ratingStr \notin Numerals
        THEN io = "ok" /\ UNCHANGED faults /\ fail("invalid rating", <<>>)
        ELSE IF OutOfRange(Atoi(ratingStr))
        THEN io = "ok" /\ UNCHANGED faults /\ fail("invalid rating", <<>>)
        ELSE IF cardPath \notin DOMAIN files
        THEN UNCHANGED faults /\ fail("card file does not exist", <<>>)
        ELSE IF parseCard(cardPath, files, io).err
        THEN faults' = faults + 1 /\ fail("failed to parse card", <<"ParseCard">>)
        ELSE LET card == parseCard(cardPath, files, io).card
                 u == updateCard(card, files, Atoi(ratingStr), now, days, io)
             IN /\ MayRate
                /\ faults' = IF io = "ok" THEN faults ELSE faults + 1
                /\ files' = u.files
                /\ ret' = Ret("rateCommand", args,
                              IF u.err THEN "failed to update card metadata" ELSE "",
                              <<>>, <<"ParseCard">> \o u.calls, NoSession,
                              [cards |-> <<u.card>>, current |-> 0, at |-> now])
  /\ UNCHANGED <<now, heap, cards, current>>
  /\ UNCHANGED pc

\* core.RatingFromInt called on its own
RatingFromIntStep(rating) ==
  /\ ret' = Ret("RatingFromInt", <<rating>>,
                IF RatingFromInt(rating).err THEN "invalid rating" ELSE "",
                <<RatingFromInt(rating).val>>, <<>>, NoSession, NoSession)
  /\ UNCHANGED <<now, files, heap, cards, current, faults>>
  /\ UNCHANGED pc

\* the arguments the tool calls are tried with
FilePathArgs == {Absent} \cup {String(p) : p \in Paths \cup {NoSuchPath}}
RatingArgs ==
  {Absent} \cup {Number(h) : h \in {0, 1, 6, 10}} \cup {String(t) : t \in {"3", "x"}}
RatingTexts == {"", "0", "3", "5", "x"}
\* the calls of rate_card: every rating on the first card, a valid rating
\* and one out of range on the other paths, a missing file_path
ToolCalls ==
  ({Absent} \X {Absent, Number(6)})
    \cup ({String(1)} \X RatingArgs)
    \cup ((FilePathArgs \ {Absent, String(1)}) \X {Number(6), Number(10)})

Next ==
  \/ Tick
  \/ CurrentCard
  \/ HasNext
  \/ Progress
  \/ \E rating \in Ratings, days \in 1..MaxIntervalDays, io \in IOs :
       RateCard(rating, days, io)
  \/ editCard
  \/ \E p \in Paths : UpdateCurrentCard(p)

Spec == Init /\ [][Next]_vars

\* The front ends: no review process yet; sessions are built by the review
\* command and by the rate_card tool of the two servers.
InitFrontEnds ==
  /\ now = 0
  /\ files \in [Paths -> InitMetas]
  /\ heap = <<>>
  /\ cards = <<>>
  /\ current = 0
  /\ faults = 0
  /\ ret = Ret("init", <<>>, "", <<>>, <<>>, NoSession, NoSession)
  /\ pc = <<>>

NextFrontEnds ==
  \/ Tick
  \/ \E unreadable \in SUBSET Paths : ReviewCommand(unreadable)
  \/ \E unreadable \in SUBSET Paths, rating \in RatingTexts,
        days \in 1..MaxIntervalDays, io \in IOs, dt \in 0..1 :
       TurnBased(unreadable, rating, days, io, dt)
  \/ \E call \in ToolCalls,
        days \in 1..MaxIntervalDays, io \in IOs \cup {"parse_fails"},
        zone \in ZoneOffsets :
       handleRateCard(call[1], call[2], days, io, zone)
  \/ \E call \in ToolCalls,
        days \in 1..MaxIntervalDays, io \in IOs \cup {"parse_fails"} :
       SRSServer_handleRateCard(call[1], call[2], days, io)
  \/ \E cardPath \in {1, NoSuchPath}, ratingStr \in RatingTexts \ {""},
        days \in 1..MaxIntervalDays, io \in IOs \cup {"parse_fails"} :
       rateCommand(cardPath, ratingStr, days, io)
  \/ \E rating \in 0..5 : RatingFromIntStep(rating)

SpecFrontEnds == InitFrontEnds /\ [][NextFrontEnds]_vars

\* ----- turn-based review, one invocation after the other -------------------
\* Each invocation is a process of its own: it keeps nothing of the one
\* before it.  What an invocation printed stays on the terminal, and pc holds
\* it: the path of the card the latest invocation displayed, if it displayed
\* one.
TurnRatings == {"", "1", "3", "x"}

\* the card StartTurnBased displays last, if it returns without an error
Displayed(r) ==
  IF r.err # "" \/ r.final = NoSession \/ r.final.current >= Len(r.final.cards)
  THEN <<>>
  ELSE <<r.final.cards[r.final.current + 1].FilePath>>

InitTurns ==
  /\ now = 0
  /\ files \in [Paths -> InitMetas]
  /\ heap = <<>>
  /\ cards = <<>>
  /\ current = 0
  /\ faults = 0
  /\ ret = Ret("init", <<>>, "", <<>>, <<>>, NoSession, NoSession)
  /\ pc = <<>>

\* srs review [rating] at the terminal
ReviewInvocation(rating, days, dt) ==
  /\ reviewTurnBased({}, rating, days, "ok", dt)
  /\ pc' = Displayed(ret')

NextTurns ==
  \/ Tick
  \/ \E rating \in TurnRatings, days \in 1..MaxIntervalDays, dt \in 0..1 :
       ReviewInvocation(rating, days, dt)

SpecTurns == InitTurns /\ [][NextTurns]_vars

\* ----- the interactive review (tui.StartTUI, ReviewModel) -------------------
\* pc holds the StartTUI process: where it stands (a program running from the
\* top of the loop, the editor running, the program with the restored state
\* running, returned), the ReviewModel of the program, what StartTUI saved
\* from the edit message, and the error StartTUI returned.
showingQuestion == 0
showingAnswer == 1

KeyStrokes == {"enter", "q", ":", "1", "3", "e", "ctrl+c"}
\* the keys whose msg.String() has length 1
SingleChars == {"q", ":", "1", "3", "e"}
\* the keys pressed while the question is shown
QuestionKeys == {"enter", "q", ":", "1", "ctrl+c"}
KeyRating(key) == IF key = "1" THEN Again ELSE Good

NoMessage == <<>>
\* fmt.Sprintf("edit_card:%s:%d", m.userAnswer, int(m.state)), as characters
\* after the word edit_card
EditMessage(userAnswer, state) ==
  <<"edit_card", ":">> \o userAnswer \o <<":", ToString(state)>>

\* strings.HasPrefix(final.message, "edit_card:")
HasEditPrefix(message) ==
  Len(message) >= 2 /\ message[1] = "edit_card" /\ message[2] = ":"

\* strings.Split(message, ":")
RECURSIVE Split(_, _, _)
Split(message, part, parts) ==
  IF message = <<>> THEN Append(parts, part)
  ELSE IF Head(message) = ":" THEN Split(Tail(message), <<>>, Append(parts, part))
  ELSE Split(Tail(message), Append(part, Head(message)), parts)

DigitOf(ch) == CASE ch = "0" -> 0 [] ch = "1" -> 1 [] ch = "3" -> 3 [] OTHER -> -1

\* fmt.Sscanf(text, "%d", &stateInt) on stateInt = 0: the leading digits
RECURSIVE Sscanf(_, _)
Sscanf(text, acc) ==
  IF text = <<>> \/ DigitOf(Head(text)) < 0 THEN acc
  ELSE Sscanf(Tail(text), 10 * acc + DigitOf(Head(text)))

\* the state StartTUI takes from the edit message
SavedOf(message) ==
  LET parts == Split(message, <<>>, <<>>)
  IN IF Len(parts) >= 3
     THEN [userAnswer |-> parts[2],
           state |-> IF Len(parts[3]) > 0 THEN Sscanf(parts[3], 0)
                     ELSE showingQuestion]
     ELSE [userAnswer |-> <<>>, state |-> showingQuestion]

\* NewReviewModel
NewReviewModel(cs, cur) ==
  LET c == CurrentCardOp(cs, cur)
  IN [err |-> c.err,
      m |-> [currentCard |-> c.val, state |-> showingQuestion,
             userAnswer |-> <<>>, quitting |-> FALSE, message |-> NoMessage]]

NoModel == NewReviewModel(<<>>, 0).m
NoSaved == [userAnswer |-> <<>>, state |-> showingQuestion]

\* a rateCard that moves to the next card without resetting the view
rateCardModel_NoReset(m, rating, cs, cur, hp, fs, t, days, io) ==
  LET r == RateCardOp(cs, cur, hp, fs, rating, t, days, io)
      done == [session |-> r, calls |-> <<"RateCard">> \o r.calls]
  IN IF r.err # ""
     THEN done @@ [m |-> [m EXCEPT !.message = <<"Error rating card">>],
                   quit |-> FALSE]
     ELSE IF ~HasNextOp(r.cards, r.current)
     THEN done @@ [m |-> [m EXCEPT !.quitting = TRUE], quit |-> TRUE]
     ELSE done @@ [m |-> [m EXCEPT !.currentCard =
                                      CurrentCardOp(r.cards, r.current).val],
                   quit |-> FALSE]

\* ReviewModel.rateCard
rateCardModel(m, rating, cs, cur, hp, fs, t, days, io) ==
  LET r == RateCardOp(cs, cur, hp, fs, rating, t, days, io)
      done == [session |-> r, calls |-> <<"RateCard">> \o r.calls]
  IN IF r.err # ""
     THEN done @@ [m |-> [m EXCEPT !.message = <<"Error rating card">>],
                   quit |-> FALSE]
     ELSE IF ~HasNextOp(r.cards, r.current)
     THEN done @@ [m |-> [m EXCEPT !.quitting = TRUE], quit |-> TRUE]
     ELSE done @@ [m |-> [m EXCEPT !.currentCard =
                                      CurrentCardOp(r.cards, r.current).val,
                                    !.state = showingQuestion,
                                    !.userAnswer = <<>>,
                                    !.message = NoMessage],
                   quit |-> FALSE]

\* ReviewModel.Update on a key: the model it returns, whether the command
\* is tea.Quit, and what became of the session
Update(m, key, cs, cur, hp, fs, t, days, io) ==
  LET same == [session |-> [cards |-> cs, current |-> cur, heap |-> hp,
                            files |-> fs, err |-> "", calls |-> <<>>],
               calls |-> <<>>]
  IN IF m.state = showingQuestion
     THEN CASE key = "ctrl+c" ->
                 same @@ [m |-> [m EXCEPT !.quitting = TRUE], quit |-> TRUE]
            [] key = "enter" ->
                 same @@ [m |-> [m EXCEPT !.state = showingAnswer], quit |-> FALSE]
            [] key \in SingleChars ->
                 same @@ [m |-> [m EXCEPT !.userAnswer = Append(@, key)],
                          quit |-> FALSE]
            [] OTHER -> same @@ [m |-> m, quit |-> FALSE]
     ELSE IF m.state = showingAnswer
     THEN CASE key \in {"q", "ctrl+c"} ->
                 same @@ [m |-> [m EXCEPT !.quitting = TRUE], quit |-> TRUE]
            [] key \in {"1", "3"} ->
                 rateCardModel(m, KeyRating(key), cs, cur, hp, fs, t, days, io)
            [] key = "e" ->
                 same @@ [m |-> [m EXCEPT !.quitting = TRUE,
                                          !.message = EditMessage(m.userAnswer,
                                                                  m.state)],
                          quit |-> TRUE]
            [] OTHER -> same @@ [m |-> m, quit |-> FALSE]
     ELSE same @@ [m |-> m, quit |-> FALSE]

\* the StartTUI process at a position
Process(at, m, saved, err) == [at |-> at, m |-> m, saved |-> saved, err |-> err]

\* the top of the loop of StartTUI
LoopTop(cs, cur) ==
  LET n == NewReviewModel(cs, cur)
  IN IF n.err # ""
     THEN Process("returned", NoModel, NoSaved, "failed to create review model")
     ELSE Process("run", n.m, NoSaved, "")

\* StartTUI(cards) over the due cards of the deck, up to its first program
InitTUI ==
  /\ now = 0
  /\ files \in [Paths -> InitMetas]
  /\ heap = GetDueCards(FindCards(1, {}, files), now)
  /\ cards = NewReviewSession(Pointers(Len(heap))).cards
  /\ current = NewReviewSession(Pointers(Len(heap))).current
  /\ faults = 0
  /\ ret = Ret("init", <<>>, "", <<>>, <<>>, NoSession, NoSession)
  /\ pc = IF Len(heap) = 0 THEN Process("returned", NoModel, NoSaved, "")
          ELSE LoopTop(cards, current)

\* a key reaches the running program: Update, and when the program quits,
\* StartTUI up to the next program, the editor, or its return
KeyMsg(key, days, io) ==
  /\ pc.at \in {"run", "restored"}
  /\ io # "ok" => /\ faults < MaxFaults
                  /\ pc.m.state = showingAnswer /\ key \in {"1", "3"}
  /\ pc.m.state = showingQuestion => key \in QuestionKeys
  /\ (pc.m.state = showingQuestion /\ key \in SingleChars)
       => Len(pc.m.userAnswer) < MaxAnswer
  /\ (pc.m.state = showingAnswer /\ key \in {"1", "3"})
       => /\ current < Len(cards)
          /\ Len(heap[cards[current + 1]].ReviewLog) < MaxReps
  /\ faults' = IF io = "ok" THEN faults ELSE faults + 1
  /\ LET u == Update(pc.m, key, cards, current, heap, files, now, days, io)
         next == IF ~u.quit THEN Process(pc.at, u.m, pc.saved, "")
                 ELSE IF pc.at = "restored"
                 THEN LoopTop(u.session.cards, u.session.current)
                 ELSE IF HasEditPrefix(u.m.message)
                 THEN Process("editing", u.m, SavedOf(u.m.message), "")
                 ELSE Process("returned", u.m, NoSaved, "")
     IN /\ Len(u.session.cards) <= MaxLen
        /\ cards' = u.session.cards
        /\ current' = u.session.current
        /\ heap' = u.session.heap
        /\ files' = u.session.files
        /\ pc' = next
        /\ ret' = Ret("KeyMsg", <<key>>, next.err, <<>>, u.calls, NoSession,
                      NoSession)
  /\ UNCHANGED now

\* the editor exits: editCard returns, the card is parsed again and put in
\* the session, and the program with the restored state starts.  The user
\* saved the file as it was or without its metadata line.
EditorExit(outcome) ==
  /\ pc.at = "editing"
  /\ outcome # "saved" => faults < MaxFaults
  /\ faults' = IF outcome = "saved" THEN faults ELSE faults + 1
  /\ \E line \in {files[heap[cards[current + 1]].FilePath], NoMeta} :
       LET p == heap[cards[current + 1]].FilePath
           fs == [files EXCEPT ![p] = line]
           r == UpdateCurrentCardOp(cards, current, heap, ParseCard(p, fs))
           n == NewReviewModel(r.cards, current)
       IN CASE outcome = "editor_fails" ->
                 /\ line = files[p]
                 /\ pc' = Process("returned", pc.m, NoSaved, "")
                 /\ ret' = Ret("EditorExit", <<outcome>>, "", <<>>, <<"editCard">>,
                               NoSession, NoSession)
                 /\ UNCHANGED <<files, heap, cards>>
            [] outcome = "reload_fails" ->
                 /\ files' = fs
                 /\ pc' = Process("returned", pc.m, NoSaved, "")
                 /\ ret' = Ret("EditorExit", <<outcome>>, "", <<>>,
                               <<"editCard", "ParseCard">>, NoSession, NoSession)
                 /\ UNCHANGED <<heap, cards>>
            [] OTHER ->
                 /\ Len(r.heap) <= MaxObjs
                 /\ files' = fs
                 /\ heap' = r.heap
                 /\ cards' = r.cards
                 /\ pc' = Process("restored",
                                  [n.m EXCEPT !.userAnswer = pc.saved.userAnswer,
                                              !.state = pc.saved.state],
                                  NoSaved, "")
                 /\ ret' = Ret("EditorExit", <<outcome>>, "", <<>>,
                               <<"editCard", "ParseCard", "UpdateCurrentCard">>,
                               NoSession, NoSession)
  /\ UNCHANGED <<now, current>>

NextTUI ==
  \/ Tick
  \/ \E key \in KeyStrokes, days \in 1..MaxIntervalDays, io \in IOs : KeyMsg(key, days, io)
  \/ \E outcome \in {"saved", "editor_fails", "reload_fails"} : EditorExit(outcome)

SpecTUI == InitTUI /\ [][NextTUI]_vars

\* ----- the configuration (loadConfig, saveConfig, core.LoadConfig, -------
\* ----- core.SaveConfig) ----------------------------------------------------
\* A path is its sequence of characters.  In this part of the model files
\* holds the two configuration files: config, the lines of
\* ~/.config/srs/config, and json, the text of ~/.srs_config.json.
PathChars == {"/", "u", "x", " "}
\* os.UserHomeDir()
HomeDir == <<"/", "u">>

\* a path as filepath.Abs returns it: rooted, no empty element, no slash at
\* its end but for the root
IsAbsClean(p) ==
  /\ Len(p) >= 1
  /\ p[1] = "/"
  /\ \A k \in 1..(Len(p) - 1) : ~(p[k] = "/" /\ p[k + 1] = "/")
  /\ Len(p) > 1 => p[Len(p)] # "/"

\* the base deck paths a configuration holds: none, or an absolute path
BaseDeckPaths ==
  {<<>>} \cup {p \in UNION {[1..n -> PathChars] : n \in 1..MaxPath} : IsAbsClean(p)}

\* strings.HasPrefix
HasPrefix(text, prefix) ==
  Len(text) >= Len(prefix) /\ SubSeq(text, 1, Len(prefix)) = prefix

\* strings.TrimSpace
RECURSIVE TrimLeftOf(_)
TrimLeftOf(text) ==
  IF text # <<>> /\ Head(text) = " " THEN TrimLeftOf(Tail(text)) ELSE text
RECURSIVE TrimRightOf(_)
TrimRightOf(text) ==
  IF text # <<>> /\ text[Len(text)] = " "
  THEN TrimRightOf(SubSeq(text, 1, Len(text) - 1)) ELSE text
TrimSpaceOf(text) == TrimRightOf(TrimLeftOf(text))

\* filepath.Clean on a rooted path without dot elements
RECURSIVE Clean(_)
Clean(p) ==
  IF Len(p) >= 2 /\ p[1] = "/" /\ p[2] = "/" THEN Clean(Tail(p))
  ELSE IF Len(p) >= 2 /\ p[Len(p)] = "/" THEN Clean(SubSeq(p, 1, Len(p) - 1))
  ELSE IF Len(p) >= 2 THEN <<Head(p)>> \o Clean(Tail(p))
  ELSE p

\* filepath.Join(dir, rest) for a rooted dir
JoinPath(dir, rest) ==
  IF rest = <<>> THEN Clean(dir) ELSE Clean(dir \o <<"/">> \o rest)

\* the lines saveConfig prints
ConfigText(path) ==
  << <<"#">>, <<"#">>, <<>> >>
    \o (IF path = <<>> THEN << >>
        ELSE IF HasPrefix(path, HomeDir)
        THEN << <<"base_deck=", "~">> \o SubSeq(path, Len(HomeDir) + 1, Len(path)) >>
        ELSE << <<"base_deck=">> \o path >>)

\* the scanner loop of loadConfig from line k on
RECURSIVE ScanConfig(_, _)
ScanConfig(lines, k) ==
  IF k > Len(lines) THEN <<>>
  ELSE LET line == TrimSpaceOf(lines[k])
       IN IF line = <<>> \/ Head(line) = "#" THEN ScanConfig(lines, k + 1)
          ELSE IF Head(line) = "base_deck="
          THEN LET value == TrimSpaceOf(Tail(line))
               IN IF HasPrefix(value, <<"~", "/">>)
                  THEN JoinPath(HomeDir, SubSeq(value, 3, Len(value)))
                  ELSE value
          ELSE ScanConfig(lines, k + 1)

\* json.MarshalIndent of a Config and json.Unmarshal of the text
Marshal(path) == <<"{", "base_deck_path", ":", "\"">> \o path \o <<"\"", "}">>
Unmarshal(text) == SubSeq(text, 5, Len(text) - 2)

Absent_File == <<"absent">>

InitConfig ==
  /\ now = 0
  /\ files = [config |-> Absent_File, json |-> Absent_File]
  /\ heap = <<>>
  /\ cards = <<>>
  /\ current = 0
  /\ faults = 0
  /\ ret = Ret("init", <<>>, "", <<>>, <<>>, NoSession, NoSession)
  /\ pc = <<>>

saveConfig(path) ==
  /\ files' = [files EXCEPT !.config = ConfigText(path)]
  /\ ret' = Ret("saveConfig", <<path>>, "", <<>>, <<"Create">>, NoSession, NoSession)
  /\ UNCHANGED <<now, heap, cards, current, faults, pc>>

loadConfig ==
  /\ ret' = Ret("loadConfig", <<>>, "",
                <<IF files.config = Absent_File THEN <<>>
                  ELSE ScanConfig(files.config, 1)>>,
                <<"Open">>, NoSession, NoSession)
  /\ UNCHANGED <<now, files, heap, cards, current, faults, pc>>

SaveConfig(path) ==
  /\ files' = [files EXCEPT !.json = Marshal(path)]
  /\ ret' = Ret("SaveConfig", <<path>>, "", <<>>, <<"WriteFile">>, NoSession,
                NoSession)
  /\ UNCHANGED <<now, heap, cards, current, faults, pc>>

LoadConfig ==
  /\ ret' = Ret("LoadConfig", <<>>, "",
                <<IF files.json = Absent_File THEN <<>> ELSE Unmarshal(files.json)>>,
                <<"ReadFile">>, NoSession, NoSession)
  /\ UNCHANGED <<now, files, heap, cards, current, faults, pc>>

NextConfig ==
  \/ \E path \in BaseDeckPaths : saveConfig(path)
  \/ loadConfig
  \/ \E path \in BaseDeckPaths : SaveConfig(path)
  \/ LoadConfig

SpecConfig == InitConfig /\ [][NextConfig]_vars

\* ----- the card file as text (core/card.go) --------------------------------
\* A file is its sequence of lines.  A line is ordinary text, a line that
\* has the prefix "<!-- FSRS:" and the suffix "-->" (its body is the list of
\* key:value fields between them), or a line that has the prefix only.
TextLine(s) == [kind |-> "text", s |-> s, body |-> <<>>]
MetaLine(body) == [kind |-> "fsrs", s |-> "", body |-> body]
OpenMetaLine == [kind |-> "fsrs_open", s |-> "<!-- FSRS: note", body |-> <<>>]
Separator == TextLine("---")
Blank == TextLine("")

\* strings.HasPrefix(line, "<!-- FSRS:") and strings.HasSuffix(line, "-->")
HasFSRSPrefix(line) == line.kind \in {"fsrs", "fsrs_open"}
HasFSRSSuffix(line) == line.kind = "fsrs"

\* The values of the fields: a timestamp (whole seconds), a decimal integer,
\* a decimal fraction (in thousandths) or any other word.
TimeTok(n) == [t |-> "time", n |-> n, w |-> ""]
IntTok(n) == [t |-> "int", n |-> n, w |-> ""]
FloatTok(n) == [t |-> "float", n |-> n, w |-> ""]
WordTok(w) == [t |-> "word", n |-> 0, w |-> w]

\* Go's int and uint64, on the narrow words of the model
IntMin == -(2 ^ (IntBits - 1))
IntMax == 2 ^ (IntBits - 1) - 1
UintMod == 2 ^ IntBits
Uint64(i) == i % UintMod

\* time.Parse(time.RFC3339, value), strconv.ParseFloat(value, 64),
\* strconv.Atoi(value): whether the value parses, and to what
TimeParse(v) == [ok |-> v.t = "time", val |-> ParseRFC3339(v.n)]
ParseFloat(v) ==
  [ok |-> v.t \in {"float", "int"},
   val |-> IF v.t = "int" THEN v.n * 1000 ELSE v.n]
AtoiTok(v) == [ok |-> v.t = "int" /\ v.n >= IntMin /\ v.n <= IntMax, val |-> v.n]

\* the text of a value, as StringToState compares it
TokText(v) == IF v.t = "word" THEN v.w ELSE "0"

\* fmt's %.2f of a value in thousandths
Format2dp(x) == FloatTok(((x + 5) \div 10) * 10)

\* fsrs.NewCard() with all the fields the file keeps
NewFSRSCard ==
  [Due |-> 0, Stability |-> 0, Difficulty |-> 0, ElapsedDays |-> 0,
   ScheduledDays |-> 0, Reps |-> 0, Lapses |-> 0, State |-> New]

\* one round of the loop of parseFSRSMetadata: the switch on the key
DecodeField_Strict(card, key, value) ==
  CASE key = "due" ->
         IF TimeParse(value).ok THEN [card EXCEPT !.Due = TimeParse(value).val]
         ELSE NewFSRSCard
    [] key = "stability" ->
         IF ParseFloat(value).ok
         THEN [card EXCEPT !.Stability = ParseFloat(value).val] ELSE NewFSRSCard
    [] key = "difficulty" ->
         IF ParseFloat(value).ok
         THEN [card EXCEPT !.Difficulty = ParseFloat(value).val] ELSE NewFSRSCard
    [] key = "elapsed_days" ->
         IF AtoiTok(value).ok
         THEN [card EXCEPT !.ElapsedDays = Uint64(AtoiTok(value).val)]
         ELSE NewFSRSCard
    [] key = "scheduled_days" ->
         IF AtoiTok(value).ok
         THEN [card EXCEPT !.ScheduledDays = Uint64(AtoiTok(value).val)]
         ELSE NewFSRSCard
    [] key = "reps" ->
         IF AtoiTok(value).ok
         THEN [card EXCEPT !.Reps = Uint64(AtoiTok(value).val)] ELSE NewFSRSCard
    [] key = "lapses" ->
         IF AtoiTok(value).ok
         THEN [card EXCEPT !.Lapses = Uint64(AtoiTok(value).val)] ELSE NewFSRSCard
    [] key = "state" -> [card EXCEPT !.State = StringToState(TokText(value))]
    [] OTHER -> card

DecodeField(card, key, value) ==
  CASE key = "due" ->
         IF TimeParse(value).ok THEN [card EXCEPT !.Due = TimeParse(value).val]
         ELSE card
    [] key = "stability" ->
         IF ParseFloat(value).ok
         THEN [card EXCEPT !.Stability = ParseFloat(value).val] ELSE card
    [] key = "difficulty" ->
         IF ParseFloat(value).ok
         THEN [card EXCEPT !.Difficulty = ParseFloat(value).val] ELSE card
    [] key = "elapsed_days" ->
         IF AtoiTok(value).ok
         THEN [card EXCEPT !.ElapsedDays = Uint64(AtoiTok(value).val)] ELSE card
    [] key = "scheduled_days" ->
         IF AtoiTok(value).ok
         THEN [card EXCEPT !.ScheduledDays = Uint64(AtoiTok(value).val)]
         ELSE card
    [] key = "reps" ->
         IF AtoiTok(value).ok
         THEN [card EXCEPT !.Reps = Uint64(AtoiTok(value).val)] ELSE card
    [] key = "lapses" ->
         IF AtoiTok(value).ok
         THEN [card EXCEPT !.Lapses = Uint64(AtoiTok(value).val)] ELSE card
    [] key = "state" -> [card EXCEPT !.State = StringToState(TokText(value))]
    [] OTHER -> card

\* parseFSRSMetadata on the fields the regular expression finds, in order
RECURSIVE DecodeFields(_, _, _)
DecodeFields(card, body, i) ==
  IF i > Len(body) THEN card
  ELSE DecodeFields(DecodeField(card, body[i][1], body[i][2]), body, i + 1)

parseFSRSMetadataText(body) == DecodeFields(NewFSRSCard, body, 1)

\* the fields of the line UpdateFSRSMetadata formats, in its fixed order
fsrsLine(c) ==
  MetaLine(<< <<"due", TimeTok(FormatRFC3339(c.Due))>>,
              <<"stability", Format2dp(c.Stability)>>,
              <<"difficulty", Format2dp(c.Difficulty)>>,
              <<"elapsed_days", IntTok(c.ElapsedDays)>>,
              <<"scheduled_days", IntTok(c.ScheduledDays)>>,
              <<"reps", IntTok(c.Reps)>>,
              <<"lapses", IntTok(c.Lapses)>>,
              <<"state", WordTok(StateToString(c.State))>> >>)

\* strings.TrimSpace of lines joined by newlines: blank lines at both ends go
RECURSIVE TrimLeft(_)
TrimLeft(ls) ==
  IF ls # <<>> /\ Head(ls) = Blank THEN TrimLeft(Tail(ls)) ELSE ls

RECURSIVE TrimRight(_)
TrimRight(ls) ==
  IF ls # <<>> /\ ls[Len(ls)] = Blank
  THEN TrimRight(SubSeq(ls, 1, Len(ls) - 1)) ELSE ls

TrimSpace(ls) == TrimRight(TrimLeft(ls))

\* bufio.Scanner over the file: the lines, without an empty last one
ScanLines(content) ==
  IF content # <<>> /\ content[Len(content)] = Blank
  THEN SubSeq(content, 1, Len(content) - 1) ELSE content

\* the scanning loop of ParseCard from line i on; st is (question, answer,
\* fsrsMetadata, inAnswer)
RECURSIVE ScanCard(_, _, _)
ScanCard(lines, i, st) ==
  IF i > Len(lines) THEN st
  ELSE LET line == lines[i]
       IN IF HasFSRSPrefix(line) /\ HasFSRSSuffix(line)
          THEN ScanCard(lines, i + 1, [st EXCEPT !.fsrsMetadata = line.body])
          ELSE IF line = Separator /\ ~st.inAnswer
          THEN ScanCard(lines, i + 1, [st EXCEPT !.inAnswer = TRUE])
          ELSE IF st.inAnswer
          THEN ScanCard(lines, i + 1, [st EXCEPT !.answer = Append(@, line)])
          ELSE ScanCard(lines, i + 1, [st EXCEPT !.question = Append(@, line)])

\* ParseCard on the text of a readable file
ParseCardText(content) ==
  LET st == ScanCard(ScanLines(content), 1,
                     [question |-> <<>>, answer |-> <<>>, fsrsMetadata |-> <<>>,
                      inAnswer |-> FALSE])
  IN [Question |-> TrimSpace(st.question),
      Answer |-> TrimSpace(st.answer),
      FSRSCard |-> IF st.fsrsMetadata # <<>>
                   THEN parseFSRSMetadataText(st.fsrsMetadata)
                   ELSE NewFSRSCard]

\* strings.Split(content, "\n"): the lines between the newlines; the text
\* without a byte is one empty line
SplitLines(content) == IF content = <<>> THEN <<Blank>> ELSE content

\* strings.Join(lines, "\n") after fsrsLine + "\n": nothing joined leaves the
\* newline at the end of the text, which reads as an empty last line
JoinAfterNewline(lines) == IF lines = <<>> THEN <<Blank>> ELSE lines

\* a serializer that drops only the complete metadata lines, as the parser
\* recognises them
UpdateFSRSMetadataText_CompleteOnly(c, content) ==
  <<fsrsLine(c.FSRSCard)>>
    \o JoinAfterNewline(SelectSeq(SplitLines(content),
          LAMBDA line : ~(HasFSRSPrefix(line) /\ HasFSRSSuffix(line))))

\* UpdateFSRSMetadata on the text: every line with the prefix is filtered
\* out and the new line goes on top
UpdateFSRSMetadataText(c, content) ==
  <<fsrsLine(c.FSRSCard)>>
    \o JoinAfterNewline(SelectSeq(SplitLines(content),
                                  LAMBDA line : ~HasFSRSPrefix(line)))

\* ----- the codec on its own -----------------------------------------------
\* The inputs: files of up to MaxLines lines, and one-line files whose
\* metadata line has up to MaxFields fields of any key and value.
Keys ==
  {"due", "stability", "difficulty", "elapsed_days", "scheduled_days", "reps",
   "lapses", "state"}
Values ==
  {TimeTok(1), IntTok(-1), IntTok(5), FloatTok(6250), WordTok("invalid"),
   WordTok("Review"), WordTok("learning")}
Fields == {<<k, v>> : k \in Keys, v \in Values}
Bodies == UNION {[1..n -> Fields] : n \in 0..MaxFields}

\* the line of the example deck, and the line with an invalid stability
FileBodies ==
  { << <<"due", TimeTok(1)>>, <<"stability", FloatTok(2505)>>,
       <<"difficulty", FloatTok(6250)>>, <<"elapsed_days", IntTok(0)>>,
       <<"scheduled_days", IntTok(1)>>, <<"reps", IntTok(1)>>,
       <<"lapses", IntTok(0)>>, <<"state", WordTok("Review")>> >>,
    << <<"due", TimeTok(1)>>, <<"stability", WordTok("invalid")>>,
       <<"difficulty", FloatTok(6250)>>, <<"reps", IntTok(5)>> >> }
FileLines ==
  {TextLine("Q"), TextLine("A"), Blank, Separator, OpenMetaLine}
    \cup {MetaLine(b) : b \in FileBodies}
Contents ==
  UNION {[1..n -> FileLines] : n \in 0..MaxLines}
    \cup {<<MetaLine(b)>> : b \in Bodies}

StateNames == {"New", "Learning", "Review", "Relearning", "learning", "Unknown", ""}
StateValues == New..(Relearning + 1)

\* the card after scheduler.Repeat at time t: the fields RateCard stores
RepeatFSRSCard(c, rating, t) ==
  [c EXCEPT !.Due = NextDue(c.State, rating, t, 1),
            !.State = NextState(c.State, rating),
            !.Reps = Uint64(c.Reps + 1),
            !.Stability = 2505,
            !.Difficulty = 6254,
            !.ScheduledDays = IF NextDue(c.State, rating, t, 1) >= t + Day
                              THEN 1 ELSE 0]

InitCodec ==
  /\ now = 1
  /\ files \in {<<content>> : content \in Contents}
  /\ heap = <<>>
  /\ cards = <<>>
  /\ current = 0
  /\ faults = 0
  /\ ret = Ret("init", <<>>, "", <<>>, <<>>, NoSession, NoSession)
  /\ pc = <<>>

\* ParseCard on the file
ParseCardStep ==
  /\ ret' = Ret("ParseCard", <<files[1]>>, "", <<ParseCardText(files[1])>>, <<>>,
                NoSession, NoSession)
  /\ UNCHANGED <<now, files, heap, cards, current, faults>>
  /\ UNCHANGED pc

\* UpdateFSRSMetadata of the card parsed from the file, as parsed or after a
\* rating changed its scheduling state
UpdateFSRSMetadataStep(rated, rating) ==
  /\ LET parsed == ParseCardText(files[1])
         card == IF rated
                 THEN [parsed EXCEPT !.FSRSCard = RepeatFSRSCard(@, rating, now)]
                 ELSE parsed
     IN /\ files' = <<UpdateFSRSMetadataText(card, files[1])>>
        /\ ret' = Ret("UpdateFSRSMetadata", <<card, files[1]>>, "", <<>>,
                      <<"ReadFile", "WriteFile">>, NoSession, NoSession)
  /\ UNCHANGED <<now, heap, cards, current, faults>>
  /\ UNCHANGED pc

\* StringToState and StateToString
StringToStateStep(s) ==
  /\ ret' = Ret("StringToState", <<s>>, "", <<StringToState(s)>>, <<>>, NoSession,
                NoSession)
  /\ UNCHANGED <<now, files, heap, cards, current, faults>>
  /\ UNCHANGED pc

StateToStringStep(state) ==
  /\ ret' = Ret("StateToString", <<state>>, "", <<StateToString(state)>>, <<>>,
                NoSession, NoSession)
  /\ UNCHANGED <<now, files, heap, cards, current, faults>>
  /\ UNCHANGED pc

NextCodec ==
  \/ ParseCardStep
  \/ \E rating \in {Again, Good} : UpdateFSRSMetadataStep(TRUE, rating)
  \/ UpdateFSRSMetadataStep(FALSE, Again)
  \/ \E s \in StateNames : StringToStateStep(s)
  \/ \E state \in StateValues : StateToStringStep(state)

SpecCodec == InitCodec /\ [][NextCodec]_vars

\* ----- the deck directory (FindCards, GetDeckStats, GetDeckTree) ----------
\* A directory is the list of its entries in the order filepath.Walk visits
\* them.  An entry is a regular file, a regular file that cannot be opened,
\* a symbolic link to a regular file, a directory, a directory that cannot
\* be read, or a name whose Lstat fails.
Exts == {".md", ".MD", ".txt"}
ToLower(ext) == IF ext = ".MD" THEN ".md" ELSE ext
Leaf(base, ext, kind, meta) ==
  [base |-> base, ext |-> ext, kind |-> kind, meta |-> meta, entries |-> <<>>]
Dir(base, ext, kind, entries) ==
  [base |-> base, ext |-> ext, kind |-> kind, meta |-> NoMeta, entries |-> entries]

\* info.IsDir(), from Lstat
IsDir(e) == e.kind \in {"dir", "baddir"}
\* strings.HasSuffix(strings.ToLower(path), ".md")
HasSuffixMd(e) == ToLower(e.ext) = ".md"

\* filepath.Join(dir, name)
Join(dir, e) == Append(dir, <<e.base, e.ext>>)

\* ParseCard of an entry that is not a directory
ParseEntry(path, e) ==
  IF e.kind = "badfile" THEN [err |-> TRUE, card |-> NewCard]
  ELSE [err |-> FALSE, card |-> ParseCard(path, path :> e.meta)]

\* the walk function of FindCards on one entry; acc is what the walk has
\* gathered: the cards, the warnings, the error that ended it
VisitEntry_ParseErrorEnds(acc, path, e) ==
  IF e.kind \in {"gone", "baddir"} THEN [acc EXCEPT !.err = TRUE]
  ELSE IF ~IsDir(e) /\ HasSuffixMd(e)
  THEN IF ParseEntry(path, e).err
       THEN [acc EXCEPT !.warnings = Append(@, path), !.err = TRUE]
       ELSE [acc EXCEPT !.cards = Append(@, ParseEntry(path, e).card)]
  ELSE acc

VisitEntry(acc, path, e) ==
  IF e.kind \in {"gone", "baddir"} THEN [acc EXCEPT !.err = TRUE]
  ELSE IF ~IsDir(e) /\ HasSuffixMd(e)
  THEN IF ParseEntry(path, e).err
       THEN [acc EXCEPT !.warnings = Append(@, path)]
       ELSE [acc EXCEPT !.cards = Append(@, ParseEntry(path, e).card)]
  ELSE acc

\* filepath.Walk over the entries of dir from the i-th on: the walk function
\* on the entry, then the entries below it; an error ends the walk
RECURSIVE WalkEntries(_, _, _, _)
WalkEntries(acc, dir, entries, i) ==
  IF acc.err \/ i > Len(entries) THEN acc
  ELSE LET e == entries[i]
           here == VisitEntry(acc, Join(dir, e), e)
           below == IF e.kind = "dir"
                    THEN WalkEntries(here, Join(dir, e), e.entries, 1)
                    ELSE here
       IN WalkEntries(below, dir, entries, i + 1)

\* FindCards(deckPath) on a deck whose root can be read
FindCardsWalk(root) ==
  WalkEntries([cards |-> <<>>, warnings |-> <<>>, err |-> FALSE], <<>>, root, 1)

\* GetDeckStats
GetDeckStats_RelearningAsReview(cs, t) ==
  [TotalCards |-> Len(cs),
   DueCards |-> Len(GetDueCards(cs, t)),
   NewCards |-> Cardinality({i \in 1..Len(cs) : cs[i].State = New}),
   LearningCards |-> Cardinality({i \in 1..Len(cs) : cs[i].State = Learning}),
   ReviewCards |->
     Cardinality({i \in 1..Len(cs) : cs[i].State \in {Review, Relearning}})]

GetDeckStats(cs, t) ==
  [TotalCards |-> Len(cs),
   DueCards |-> Len(GetDueCards(cs, t)),
   NewCards |-> Cardinality({i \in 1..Len(cs) : cs[i].State = New}),
   LearningCards |->
     Cardinality({i \in 1..Len(cs) : cs[i].State \in {Learning, Relearning}}),
   ReviewCards |-> Cardinality({i \in 1..Len(cs) : cs[i].State = Review})]

\* getCardsInDirectory: the cards of the entries of one directory
RECURSIVE getCardsInDirectory(_, _, _)
getCardsInDirectory(dir, entries, i) ==
  IF i > Len(entries) THEN <<>>
  ELSE LET e == entries[i]
           rest == getCardsInDirectory(dir, entries, i + 1)
       IN IF ~IsDir(e) /\ HasSuffixMd(e) /\ e.kind # "gone"
             /\ ~ParseEntry(Join(dir, e), e).err
          THEN <<ParseEntry(Join(dir, e), e).card>> \o rest
          ELSE rest

\* the walk function of GetDeckTree on a directory that can be read
VisitDir(acc, dir, entries, t) ==
  IF getCardsInDirectory(dir, entries, 1) # <<>>
  THEN [acc EXCEPT !.decks =
          @ \cup {<<dir, GetDeckStats(getCardsInDirectory(dir, entries, 1), t)>>}]
  ELSE acc

RECURSIVE WalkDirs(_, _, _, _, _)
WalkDirs(acc, dir, entries, i, t) ==
  IF acc.err \/ i > Len(entries) THEN acc
  ELSE LET e == entries[i]
           below ==
             IF e.kind \in {"gone", "baddir"} THEN [acc EXCEPT !.err = TRUE]
             ELSE IF e.kind = "dir"
             THEN WalkDirs(VisitDir(acc, Join(dir, e), e.entries, t),
                           Join(dir, e), e.entries, 1, t)
             ELSE acc
       IN WalkDirs(below, dir, entries, i + 1, t)

\* GetDeckTree(basePath) on a deck whose root can be read
GetDeckTree(root, t) ==
  WalkDirs(VisitDir([decks |-> {}, err |-> FALSE], <<>>, root, t), <<>>, root, 1, t)

\* The decks: trees with entries of every kind and extension, at the top
\* and in one subdirectory that sorts between them; and flat decks of
\* NumDeckCards card files with every due date and state.
LeafKinds == {"file", "badfile", "symlink"}
Slot(base) ==
  {<<>>} \cup {<<Leaf(base, x, k, NoMeta)>> : x \in Exts, k \in LeafKinds}
         \cup {<<Dir(base, x, "dir", <<>>)>> : x \in Exts}
SubDirs ==
  {<<>>, <<Dir("s", "", "baddir", <<>>)>>, <<Leaf("s", "", "gone", NoMeta)>>}
    \cup {<<Dir("s", "", "dir", es)>> : es \in Slot("c")}
Trees == {a \o sub \o z : a \in Slot("a"), sub \in SubDirs, z \in Slot("z")}

DeckMetas ==
  {[kind |-> "meta", due |-> d, reps |-> 1, state |-> StateToString(st)] :
     d \in 0..2, st \in New..Relearning}
DeckNames == <<"a", "b", "c", "d", "e">>
FlatDecks ==
  {[i \in 1..NumDeckCards |-> Leaf(DeckNames[i], ".md", "file", m[i])] :
     m \in [1..NumDeckCards -> DeckMetas]}

InitDeck ==
  /\ now = ParseRFC3339(1)
  /\ files \in Trees \cup FlatDecks
  /\ heap = <<>>
  /\ cards = <<>>
  /\ current = 0
  /\ faults = 0
  /\ ret = Ret("init", <<>>, "", <<>>, <<>>, NoSession, NoSession)
  /\ pc = <<>>

\* FindCards on the deck; the caller keeps the cards
FindCardsStep ==
  /\ LET r == FindCardsWalk(files)
     IN /\ heap' = r.cards
        /\ ret' = Ret("FindCards", <<files>>, IF r.err THEN "walk error" ELSE "",
                      <<r.cards, r.warnings>>, <<>>, NoSession, NoSession)
  /\ UNCHANGED <<now, files, cards, current, faults>>
  /\ UNCHANGED pc

\* GetDueCards on the cards found
GetDueCardsStep ==
  /\ heap # <<>>
  /\ ret' = Ret("GetDueCards", <<heap>>, "", <<GetDueCards(heap, now)>>, <<>>,
                NoSession, NoSession)
  /\ UNCHANGED <<now, files, heap, cards, current, faults>>
  /\ UNCHANGED pc

\* handleGetDueCards: findCards, getDueCards, the result map
handleGetDueCards ==
  /\ LET r == FindCardsWalk(files)
         dueCards == GetDueCards(r.cards, now)
     IN ret' = IF r.err
               THEN Ret("handleGetDueCards", <<files>>, "error loading cards",
                        <<>>, <<"FindCards">>, NoSession, NoSession)
               ELSE Ret("handleGetDueCards", <<files>>, "",
                        <<[total_cards |-> Len(r.cards),
                           due_count |-> Len(dueCards),
                           due_cards |-> [i \in 1..Len(dueCards) |->
                                            dueCards[i].FilePath]]>>,
                        <<"FindCards", "GetDueCards">>, NoSession, NoSession)
  /\ UNCHANGED <<now, files, heap, cards, current, faults>>
  /\ UNCHANGED pc

\* GetDeckStats on the cards found
GetDeckStatsStep ==
  /\ heap # <<>>
  /\ ret' = Ret("GetDeckStats", <<heap>>, "", <<GetDeckStats(heap, now)>>, <<>>,
                NoSession, NoSession)
  /\ UNCHANGED <<now, files, heap, cards, current, faults>>
  /\ UNCHANGED pc

\* GetDeckTree on the deck
GetDeckTreeStep ==
  /\ LET r == GetDeckTree(files, now)
     IN ret' = Ret("GetDeckTree", <<files>>, IF r.err THEN "walk error" ELSE "",
                   <<r.decks>>, <<>>, NoSession, NoSession)
  /\ UNCHANGED <<now, files, heap, cards, current, faults>>
  /\ UNCHANGED pc

\* getSimpleDeckStats of mcp_simple.go: the total and the due count
getSimpleDeckStats(cs, t) ==
  [TotalCards |-> Len(cs), DueCards |-> Len(GetDueCards(cs, t))]

\* the key "." under which getSimpleDeckTree files the base
DotPath == << <<".", "">> >>

\* getSimpleDeckTree: findCards over the whole base, one entry "."
getSimpleDeckTree(root, t) ==
  LET r == FindCardsWalk(root)
  IN IF r.err THEN [decks |-> {}, err |-> TRUE]
     ELSE [decks |-> {<<DotPath, getSimpleDeckStats(r.cards, t)>>}, err |-> FALSE]

\* handleListDecks of mcp_simple.go, the list_decks tool
handleListDecks ==
  /\ LET r == getSimpleDeckTree(files, now)
     IN ret' = IF r.err
               THEN Ret("handleListDecks", <<files>>, "error getting deck tree",
                        <<>>, <<"FindCards">>, NoSession, NoSession)
               ELSE Ret("handleListDecks", <<files>>, "", <<r.decks>>,
                        <<"FindCards">>, NoSession, NoSession)
  /\ UNCHANGED <<now, files, heap, cards, current, faults>>
  /\ UNCHANGED pc

\* SRSServer.handleListDecks of mcp/server.go: core.GetDeckTree
SRSServer_handleListDecks ==
  /\ LET r == GetDeckTree(files, now)
     IN ret' = IF r.err
               THEN Ret("SRSServer.handleListDecks", <<files>>,
                        "Error getting deck tree", <<>>, <<"GetDeckTree">>,
                        NoSession, NoSession)
               ELSE Ret("SRSServer.handleListDecks", <<files>>, "", <<r.decks>>,
                        <<"GetDeckTree">>, NoSession, NoSession)
  /\ UNCHANGED <<now, files, heap, cards, current, faults>>
  /\ UNCHANGED pc

NextDeck ==
  \/ FindCardsStep
  \/ GetDueCardsStep
  \/ handleGetDueCards
  \/ GetDeckStatsStep
  \/ GetDeckTreeStep
  \/ handleListDecks
  \/ SRSServer_handleListDecks

SpecDeck == InitDeck /\ [][NextDeck]_vars

\* ----- rate operations side by side (no lock on the card files) -----------
\* A rate operation, as handleRateCard runs it, is three steps on the file
\* system: parseCard reads the file; updateFSRSMetadata, after Repeat, reads
\* it again and os.WriteFile opens it with O_TRUNC, which empties it; the
\* write then puts the new content in.  Operations of different processes
\* take their steps in any order.
Procs == 1..NumProcs
RaceRatings == {Again, Good}

\* an operation that has not started
Started(p, rating) ==
  [at |-> "start", path |-> p, rating |-> rating, seen |-> NewCard,
   card |-> NewCard, err |-> ""]

WriteFile_Guarded(fs, p, c) ==
  IF fs[p].kind = "truncated"
  THEN [files |-> [fs EXCEPT ![p] = FsrsLine(c)], err |-> ""]
  ELSE [files |-> fs, err |-> "file changed"]

\* the write of os.WriteFile: the content goes in at the start of the file,
\* whatever the file holds by then
WriteFile(fs, p, c) == [files |-> [fs EXCEPT ![p] = FsrsLine(c)], err |-> ""]

InitRace ==
  /\ now = 0
  /\ files \in [Paths -> InitMetas]
  /\ heap = <<>>
  /\ cards = <<>>
  /\ current = 0
  /\ faults = 0
  /\ ret = Ret("init", <<>>, "", <<>>, <<>>, NoSession, NoSession)
  /\ pc \in [Procs -> {Started(p, r) : p \in Paths, r \in RaceRatings}]

\* parseCard of operation i
RaceParse(i) ==
  /\ pc[i].at = "start"
  /\ LET card == ParseCard(pc[i].path, files)
     IN pc' = [pc EXCEPT ![i].at = "parsed", ![i].seen = card, ![i].card = card]
  /\ ret' = Ret("parseCard", <<i>>, "", <<>>, <<"ParseCard">>, NoSession, NoSession)
  /\ UNCHANGED <<now, files, heap, cards, current, faults>>

\* Repeat, os.ReadFile and the opening of os.WriteFile of operation i
RaceTruncate(i, days) ==
  /\ pc[i].at = "parsed"
  /\ pc' = [pc EXCEPT ![i].at = "opened",
                      ![i].card = Repeat(pc[i].card, pc[i].rating, now, days)]
  /\ files' = [files EXCEPT ![pc[i].path] = Truncated]
  /\ ret' = Ret("updateCard", <<i>>, "", <<>>, <<"Repeat", "ReadFile">>,
                NoSession, NoSession)
  /\ UNCHANGED <<now, heap, cards, current, faults>>

\* the write of os.WriteFile of operation i, and its answer
RaceWrite(i) ==
  /\ pc[i].at = "opened"
  /\ LET w == WriteFile(files, pc[i].path, pc[i].card)
     IN /\ files' = w.files
        /\ pc' = [pc EXCEPT ![i].at = "done", ![i].err = w.err]
        /\ ret' = Ret("handleRateCard", <<i>>, w.err, <<>>, <<"WriteFile">>,
                      NoSession, NoSession)
  /\ UNCHANGED <<now, heap, cards, current, faults>>

\* time passes between two steps
RaceTick ==
  /\ now < MaxTime
  /\ now' = now + 1
  /\ ret' = Ret("Tick", <<>>, "", <<>>, <<>>, NoSession, NoSession)
  /\ UNCHANGED <<files, heap, cards, current, faults, pc>>

NextRace ==
  \/ RaceTick
  \/ \E i \in Procs : RaceParse(i)
  \/ \E i \in Procs, days \in 1..MaxIntervalDays : RaceTruncate(i, days)
  \/ \E i \in Procs : RaceWrite(i)

SpecRace == InitRace /\ [][NextRace]_vars

\* ----- claims ---------------------------------------------------------------
RatedOk == "RateCard"
PersistError == "failed to update card metadata"
EndOfSession == "no cards available to rate"

\* the positions 1..n, in increasing order
Positions(n) == [i \in 1..n |-> i]

\* The cards a successful rating at cursor c, at time t, has to append: every
\* position up to the cursor whose card is due at t and whose path is not in
\* the old tail, in increasing order.
C1_Requeued(cs, c, hp, t) ==
  LET keep(i) == /\ hp[cs[i]].Due <= t
                 /\ \A k \in (c + 2)..Len(cs) :
                      hp[cs[k]].FilePath # hp[cs[i]].FilePath
      sel == SelectSeq(Positions(c + 1), keep)
  IN [j \in 1..Len(sel) |-> cs[sel[j]]]

C2_FailureKeepsCursor ==
  [][(ret'.op = RatedOk /\ current < Len(cards)
        /\ files'[heap[cards[current + 1]].FilePath]
             # FsrsLine(heap'[cards[current + 1]]))
       => /\ ret'.err = PersistError
          /\ current' = current
          /\ cards' = cards
          /\ CurrentCardOp(cards', current').val = <<cards[current + 1]>>]_vars

C2_Witness ==
  /\ ret.op = RatedOk /\ ret.err = PersistError
  /\ current < Len(cards)
  /\ files[heap[cards[current + 1]].FilePath] # FsrsLine(heap[cards[current + 1]])

\* C3: a rate() that fails on persistence leaves the card's in-memory
\* scheduling state and review log as they were before the call.
C3_FailureIsAtomic ==
  [][(ret'.op = RatedOk /\ ret'.err = PersistError) => heap' = heap]_vars

\* C4: rate() with cursor >= len(cards) returns the end-of-session error and
\* changes nothing: cursor, sequence, every card, every file; the scheduler
\* is not called.
C4_EndOfSession ==
  [][(ret'.op = RatedOk /\ current >= Len(cards))
       => /\ ret'.err = EndOfSession
          /\ ret'.calls = <<>>
          /\ UNCHANGED <<cards, current, heap, files>>]_vars

C4_Witness ==
  /\ ret.op = RatedOk /\ ret.err = EndOfSession
  /\ current = Len(cards) /\ current >= 1

\* C6: the session is append-only: the cursor and the length never decrease,
\* no position is removed or changed except the cursor's by updateCurrent,
\* and rate() only appends at the tail.
C6_AppendOnly ==
  [][/\ current' >= current
     /\ Len(cards') >= Len(cards)
     /\ \A k \in 1..Len(cards) :
          \/ /\ cards'[k] = cards[k]
             /\ heap'[cards'[k]].FilePath = heap[cards[k]].FilePath
          \/ ret'.op = "UpdateCurrentCard" /\ k = current + 1
     /\ ret'.op = RatedOk => SubSeq(cards', 1, Len(cards)) = cards]_vars

\* a position was replaced in a session that had grown by a requeue
C6_Witness ==
  /\ ret.op = "UpdateCurrentCard"
  /\ Len(cards) = 3 /\ current = 2
  /\ cards[3] # cards[1]
  /\ heap[cards[3]].FilePath = heap[cards[1]].FilePath

\* C7: current() succeeds exactly when hasNext() is true, exactly when
\* cursor < len(cards); it then returns cards[cursor], and the end-of-session
\* error otherwise; neither operation changes the session.
C7_CurrentIffHasNext ==
  [][/\ ret'.op = "CurrentCard"
          => /\ UNCHANGED <<cards, current, heap, files>>
             /\ ret'.err = "" <=> current < Len(cards)
             /\ ret'.err = "" => ret'.val = <<cards[current + 1]>>
             /\ ret'.err # "" => ret'.err = "no more cards in session"
     /\ ret'.op = "HasNext"
          => /\ UNCHANGED <<cards, current, heap, files>>
             /\ ret'.val = <<1>> <=> current < Len(cards)
             /\ ret'.val = <<1>> <=> CurrentCardOp(cards, current).err = ""]_vars

\* current() returns a card that was appended by a requeue
C7_Witness ==
  /\ ret.op = "CurrentCard" /\ ret.err = ""
  /\ current = 2 /\ ret.val = <<cards[3]>> /\ cards[3] = cards[1]

\* C8: progress() returns (cursor+1, len(cards)) and changes nothing;
\* 0 <= cursor <= len(cards) always, so the reported position is between 1
\* and the total whenever hasNext() is true.
C8_Progress ==
  [][/\ 0 <= current' /\ current' <= Len(cards')
     /\ ret'.op = "Progress"
          => /\ UNCHANGED <<cards, current, heap, files>>
             /\ ret'.val = <<current + 1, Len(cards)>>
             /\ HasNextOp(cards, current)
                  => 1 <= ret'.val[1] /\ ret'.val[1] <= ret'.val[2]]_vars

C8_Witness ==
  /\ ret.op = "Progress" /\ ret.val = <<3, 3>> /\ HasNextOp(cards, current)

\* C10: updateCurrent(card) replaces cards[cursor] by the given card and
\* changes nothing else: the cursor, the length, every other position and
\* every file; without a current card it does nothing.
C10_UpdateCurrentFrame ==
  [][ret'.op = "UpdateCurrentCard"
       => /\ current' = current
          /\ Len(cards') = Len(cards)
          /\ files' = files
          /\ \A k \in 1..Len(cards) :
               k # current + 1
                 => cards'[k] = cards[k] /\ heap'[cards'[k]] = heap[cards[k]]
          /\ current < Len(cards)
               => heap'[cards'[current + 1]]
                    = ParseCard(heap[cards[current + 1]].FilePath, files)
          /\ current >= Len(cards) => cards' = cards /\ heap' = heap]_vars

\* the card at the cursor was replaced while another position still holds
\* the old object of the same file
C10_Witness ==
  /\ ret.op = "UpdateCurrentCard"
  /\ current < Len(cards)
  /\ \E k \in 1..Len(cards) :
       /\ k # current + 1
       /\ heap[cards[k]].FilePath = heap[cards[current + 1]].FilePath
       /\ heap[cards[k]] # heap[cards[current + 1]]

\* C11: a successful rating schedules, then reads and writes the file of the
\* card at the cursor, once, and nothing else: the file then holds that
\* card's new metadata line, every other file is as before, and the cards
\* the requeue scan appends cause no further write.
C11_OneWritePerRating ==
  [][(ret'.op = RatedOk /\ ret'.err = "")
       => LET c == heap'[cards[current + 1]]
          IN /\ ret'.calls = <<"Repeat", "ReadFile", "WriteFile">>
             /\ files'[c.FilePath] = FsrsLine(c)
             /\ \A q \in Paths \ {c.FilePath} : files'[q] = files[q]]_vars

\* a rating has written the file of the card it rated and appended a card
\* of another file
C11_Witness ==
  /\ ret.op = RatedOk
  /\ ret.err = ""
  /\ Len(cards) = 3
  /\ current = 2
  /\ heap[cards[3]].FilePath # heap[cards[2]].FilePath
  /\ files[heap[cards[2]].FilePath] = FsrsLine(heap[cards[2]])

\* ----- claims about the front ends ---------------------------------------
RateCardTools == {"handleRateCard", "SRSServer.handleRateCard"}

\* an argument record that the tool boundary has to reject: file_path or
\* rating missing, or a whole-number rating outside 1..4
MustReject(args) ==
  \/ args.file_path = Absent
  \/ args.rating = Absent
  \/ /\ args.rating.kind = "number"
     /\ args.rating.halves % 2 = 0
     /\ args.rating.halves \div 2 \notin 1..4

\* C5: rate_card with a whole-number rating outside 1..4, or with file_path
\* or rating missing, returns an error before the card file is read and
\* before the scheduling function is called, and leaves the files unchanged.
C5_ValidationFirst ==
  [][(ret'.op \in RateCardTools /\ MustReject(ret'.args))
       => /\ ret'.err # ""
          /\ ret'.calls = <<>>
          /\ files' = files]_vars

\* rating 5 for an existing card file has been rejected
C5_Witness ==
  /\ ret.op = "handleRateCard"
  /\ ret.args.file_path # Absent
  /\ ret.args.rating = Number(10)
  /\ ret.err = "rating must be an integer between 1-4"

AllDue(s) == \A k \in 1..Len(s.cards) : s.cards[k].Due <= s.at

\* C9 as stated: every session built by a front end, the rate_card tool
\* included, starts at cursor 0 over cards that are all due at construction.
C9_EverySessionDue ==
  ret.built # NoSession => ret.built.current = 0 /\ AllDue(ret.built)

\* C9: a session built by the review command, interactive or turn-based,
\* starts at cursor 0 over cards that are all due at construction; a session
\* built by the rate_card tool starts at cursor 0 over exactly the named
\* card, due or not.
C9_SessionConstruction ==
  ret.built # NoSession =>
    /\ ret.built.current = 0
    /\ ret.op \in {"ReviewCommand", "TurnBased"} =>
         Len(ret.built.cards) > 0 /\ AllDue(ret.built)
    /\ ret.op \in RateCardTools =>
         /\ Len(ret.built.cards) = 1
         /\ ret.built.cards[1].FilePath = ret.args.file_path.text

\* the rate_card tool has built a session over a card that is not yet due
C9_Witness ==
  /\ ret.op \in RateCardTools
  /\ ret.built # NoSession
  /\ ret.built.cards[1].Due > ret.built.at
  /\ ret.err = ""


\* the rating a rate_card call asks for
RatingOf(args) ==
  IF args.rating.kind = "string" THEN Atoi(args.rating.text)
  ELSE args.rating.halves \div 2
\* the instant, in seconds, that a timestamp text denotes
InstantOf(text) == text.wall - text.offset
\* what a successful rate_card answers: due in seconds, state, reps
Answered(r) ==
  IF r.op = "handleRateCard" THEN <<InstantOf(r.val[1]), r.val[2], r.val[3]>>
  ELSE <<r.val[1] \div TicksPerSecond, StringToState(r.val[2]), r.val[3]>>

\* what C22 asks of a step that is a successful rate_card
PersistedAndAnswered ==
  LET p == ret'.args.file_path.text
      before == IF files[p].kind = "meta"
                THEN [State |-> StringToState(files[p].state),
                      Reps |-> files[p].reps]
                ELSE [State |-> New, Reps |-> 0]
  IN /\ files'[p].kind = "meta"
     /\ Answered(ret') = <<files'[p].due, StringToState(files'[p].state),
                           files'[p].reps>>
     /\ files'[p].reps = before.Reps + 1
     /\ StringToState(files'[p].state) =
          NextState(before.State, RatingOf(ret'.args))
     /\ files'[p].due * TicksPerSecond <=
          NextDue(before.State, RatingOf(ret'.args), now, MaxIntervalDays)
     /\ files'[p].due * TicksPerSecond + TicksPerSecond >
          NextDue(before.State, RatingOf(ret'.args), now, 1)
     /\ \A q \in Paths \ {p} : files'[q] = files[q]

\* C22: a successful rate_card has persisted its result when it answers:
\* the metadata line of the file encodes the due (to the second), the state
\* and the reps that the call returns; and the call started from the state
\* the file held before, so that successive calls on a file apply their
\* scheduling steps one after the other.
C22_PersistedBeforeAnswer ==
  [][(ret'.op \in RateCardTools /\ ret'.err = "") => PersistedAndAnswered]_vars


\* a rate_card call that passes the validation of its arguments
WellFormedCall(r) ==
  /\ r.op \in RateCardTools
  /\ r.args.file_path # Absent
  /\ r.args.rating.kind = "number"
  /\ r.args.rating.halves % 2 = 0
  /\ r.args.rating.halves \div 2 \in 1..4

\* C23: rate_card on a path under which there is no file, or whose file
\* cannot be read, returns an error, calls no scheduling step and neither
\* creates nor changes a file.
C23_MissingFile ==
  [][(WellFormedCall(ret')
        /\ (ret'.args.file_path.text \notin DOMAIN files
              \/ ret'.args.fault = "parse_fails"))
       => /\ ret'.err # ""
          /\ \A k \in 1..Len(ret'.calls) : ret'.calls[k] \notin {"Repeat", "WriteFile"}
          /\ files' = files]_vars

\* rate_card was called with rating 3 on a path that does not exist
C23_Witness ==
  /\ ret.op = "handleRateCard"
  /\ ret.args.file_path = String(NoSuchPath)
  /\ ret.args.rating = Number(6)
  /\ ret.err = "error parsing card"
  /\ ret.calls = <<"ParseCard">>


\* the boundaries that take a rating, and the rating each was given: an
\* integer, a text, or nothing
RatingBoundaries ==
  {"rateCommand", "TurnBased", "handleRateCard", "SRSServer.handleRateCard",
   "RatingFromInt"}
GivenRating(r) ==
  CASE r.op = "TurnBased" ->
         IF r.args[1] = "" THEN Absent ELSE String(r.args[1])
    [] r.op = "RatingFromInt" -> Number(2 * r.args[1])
    [] OTHER -> r.args.rating
\* an integer outside 1..4, or a text that is not one of the numerals 1..4
NotARating(g) ==
  \/ g.kind = "number" /\ g.halves % 2 = 0 /\ g.halves \div 2 \notin 1..4
  \/ g.kind = "string" /\ g.text \notin {"1", "2", "3", "4"}
\* the rating 1..4 that was given
OneToFour(g) ==
  IF g.kind = "number" THEN g.halves \div 2
  ELSE CHOOSE n \in 1..4 : ToString(n) = g.text
NamedRatings == <<Again, Hard, Good, Easy>>

\* C24: at every boundary that takes a rating, 1, 2, 3, 4 are Again, Hard,
\* Good, Easy, and any other integer, or a text that is not an integer, is
\* rejected with an error before the scheduling function is called and
\* before a card or a file changes.
C24_RatingBoundaries ==
  [][ret'.op \in RatingBoundaries =>
       /\ NotARating(GivenRating(ret')) =>
            /\ ret'.err # ""
            /\ \A k \in 1..Len(ret'.calls) : ret'.calls[k] # "Repeat"
            /\ UNCHANGED <<files, heap, cards, current>>
       /\ (\E k \in 1..Len(ret'.calls) : ret'.calls[k] = "Repeat") =>
            LET log == ret'.final.cards[1].ReviewLog
            IN log[Len(log)] = NamedRatings[OneToFour(GivenRating(ret'))]
       /\ (ret'.op = "RatingFromInt" /\ ret'.err = "") =>
            ret'.val[1] = NamedRatings[OneToFour(GivenRating(ret'))]]_vars


\* ----- claims about the codec ---------------------------------------------
\* a scheduling state whose counters fit Go's int and whose state is one of
\* the four
ValidSchedulingState(c) ==
  /\ \A n \in {c.ElapsedDays, c.ScheduledDays, c.Reps, c.Lapses} :
       n >= 0 /\ n <= IntMax
  /\ c.State \in {New, Learning, Review, Relearning}
  /\ c.Stability >= 0 /\ c.Difficulty >= 0 /\ c.Due >= 0

\* the scheduling fields as the file keeps them: due to the second,
\* stability and difficulty to two decimals
AsWritten(c) ==
  [c EXCEPT !.Due = (c.Due \div TicksPerSecond) * TicksPerSecond,
            !.Stability = ((c.Stability + 5) \div 10) * 10,
            !.Difficulty = ((c.Difficulty + 5) \div 10) * 10]

\* C12: writing a card that was parsed from a file, as parsed or after a
\* rating, and parsing the file again gives back the card's question, its
\* answer and its scheduling fields as written.
C12_RoundTrip ==
  [][(ret'.op = "UpdateFSRSMetadata" /\ ValidSchedulingState(ret'.args[1].FSRSCard))
       => LET c == ret'.args[1]
              back == ParseCardText(files'[1])
          IN /\ back.Question = c.Question
             /\ back.Answer = c.Answer
             /\ back.FSRSCard = AsWritten(c.FSRSCard)]_vars


\* the field of the scheduling state that a key names
FieldOf(c, key) ==
  CASE key = "due" -> c.Due
    [] key = "stability" -> c.Stability
    [] key = "difficulty" -> c.Difficulty
    [] key = "elapsed_days" -> c.ElapsedDays
    [] key = "scheduled_days" -> c.ScheduledDays
    [] key = "reps" -> c.Reps
    [] key = "lapses" -> c.Lapses
    [] OTHER -> c.State

\* what a key's value says, read as the key's type asks; nothing when the
\* value is not of that type (or is an integer beyond Go's int)
Meant(key, v) ==
  CASE key = "due" ->
         IF v.t = "time" THEN <<v.n * TicksPerSecond>> ELSE <<>>
    [] key \in {"stability", "difficulty"} ->
         IF v.t = "float" THEN <<v.n>>
         ELSE IF v.t = "int" THEN <<1000 * v.n>> ELSE <<>>
    [] key = "state" ->
         IF v.t = "word" /\ v.w = "Learning" THEN <<Learning>>
         ELSE IF v.t = "word" /\ v.w = "Review" THEN <<Review>>
         ELSE IF v.t = "word" /\ v.w = "Relearning" THEN <<Relearning>>
         ELSE <<>>
    [] OTHER ->
         IF v.t = "int" /\ v.n >= IntMin /\ v.n <= IntMax THEN <<v.n>> ELSE <<>>

\* the one metadata line of a file and its keys, none of them twice
OneMetaLine(content) ==
  /\ Len(content) = 1
  /\ content[1].kind = "fsrs"
  /\ \A i, j \in 1..Len(content[1].body) :
       content[1].body[i][1] = content[1].body[j][1] => i = j

Counters == {"elapsed_days", "scheduled_days", "reps", "lapses"}

\* C14: a decoded counter equals the encoded value when that is a
\* non-negative integer and is the default, zero, otherwise, a negative
\* integer such as reps:-1 included.
C14_CountersAsEncoded ==
  (ret.op = "ParseCard" /\ OneMetaLine(ret.args[1])) =>
    LET body == ret.args[1][1].body
        c == ret.val[1].FSRSCard
    IN \A i \in 1..Len(body) :
         LET key == body[i][1]
             v == body[i][2]
         IN key \in Counters =>
              FieldOf(c, key) =
                IF v.t = "int" /\ v.n >= 0 /\ v.n <= IntMax THEN v.n ELSE 0


States == {New, Learning, Review, Relearning}
NamedState ==
  {<<"New", New>>, <<"Learning", Learning>>, <<"Review", Review>>,
   <<"Relearning", Relearning>>}

\* C15: a decoded state is one of New, Learning, Review, Relearning; a name
\* decodes to its state by exact match and any other string to New; the
\* encoded name of each of the four states decodes to the same state.
C15_StateConversion ==
  /\ ret.op = "StringToState" =>
       /\ ret.val[1] \in States
       /\ \A ns \in NamedState : ret.args[1] = ns[1] => ret.val[1] = ns[2]
       /\ (\A ns \in NamedState : ret.args[1] # ns[1]) => ret.val[1] = New
  /\ ret.op = "StateToString" =>
       /\ \A ns \in NamedState : ret.args[1] = ns[2] => ret.val[1] = ns[1]
       /\ ret.args[1] \in States => StringToState(ret.val[1]) = ret.args[1]
  /\ ret.op = "ParseCard" => ret.val[1].FSRSCard.State \in States

\* "learning" was decoded, to New
C15_Witness ==
  /\ ret.op = "StringToState"
  /\ ret.args[1] = "learning"
  /\ ret.val[1] = New


\* the file without its leading metadata line, if it has one
Remainder(content) ==
  IF content # <<>> /\ content[1].kind = "fsrs" THEN Tail(content) ELSE content

\* the positions of the lines that are exactly "---"
SeparatorsOf(ls) == {k \in 1..Len(ls) : ls[k] = Separator}
Minimum(S) == CHOOSE k \in S : \A j \in S : k <= j

\* C16: only the leading metadata line is metadata; the remainder is split
\* at its first "---" line into the trimmed question before it and the
\* trimmed answer after it, which keeps every later line; without a "---"
\* line the remainder is the question and the answer is empty.
C16_SplitAtFirstSeparator ==
  ret.op = "ParseCard" =>
    LET rest == Remainder(ret.args[1])
        seps == SeparatorsOf(rest)
    IN IF seps = {}
       THEN /\ ret.val[1].Question = TrimSpace(rest)
            /\ ret.val[1].Answer = <<>>
       ELSE /\ ret.val[1].Question = TrimSpace(SubSeq(rest, 1, Minimum(seps) - 1))
            /\ ret.val[1].Answer =
                 TrimSpace(SubSeq(rest, Minimum(seps) + 1, Len(rest)))


\* ----- claims about the deck ----------------------------------------------
\* the cards of cs at the positions from i on that are due at t, in order
RECURSIVE Kept(_, _, _)
Kept(cs, i, t) ==
  IF i > Len(cs) THEN <<>>
  ELSE IF cs[i].Due <= t THEN <<cs[i]>> \o Kept(cs, i + 1, t)
  ELSE Kept(cs, i + 1, t)

\* C17: the due filter returns exactly the cards with due <= now, a card due
\* now included, in the order of the input, and leaves the cards as they
\* were; get_due_cards reports the number of cards found as the total and
\* this filtered list as the due cards.
C17_DueFilter ==
  /\ ret.op = "GetDueCards" =>
       /\ ret.val[1] = Kept(ret.args[1], 1, now)
       /\ heap = ret.args[1]
  /\ (ret.op = "handleGetDueCards" /\ ret.err = "") =>
       LET found == FindCardsWalk(files).cards
       IN /\ ret.val[1].total_cards = Len(found)
          /\ ret.val[1].due_count = Len(Kept(found, 1, now))
          /\ ret.val[1].due_cards =
               [k \in 1..Len(Kept(found, 1, now)) |-> Kept(found, 1, now)[k].FilePath]

\* of three cards the first is not yet due, the second is due now and the
\* third was due before: the filter returned the second and the third
C17_Witness ==
  /\ ret.op = "GetDueCards"
  /\ Len(ret.args[1]) = 3
  /\ ret.args[1][1].Due > now
  /\ ret.args[1][2].Due = now
  /\ ret.args[1][3].Due < now
  /\ ret.val[1] = <<ret.args[1][2], ret.args[1][3]>>


\* every entry of the deck with its path: the top ones and the ones one
\* directory down
NameOf(e) == <<e.base, e.ext>>
EntriesOf(root) ==
  {<< <<NameOf(root[i])>>, root[i] >> : i \in 1..Len(root)}
    \cup UNION {{<< <<NameOf(root[i]), NameOf(root[i].entries[j])>>,
                    root[i].entries[j] >> : j \in 1..Len(root[i].entries)} :
                  i \in 1..Len(root)}

\* no directory of the deck fails to be read and no entry's Lstat fails
WalkMeetsNoError(root) ==
  \A pe \in EntriesOf(root) : pe[2].kind \notin {"gone", "baddir"}

NameEndsInMd(e) == e.ext \in {".md", ".MD"}
PathsOf(cs) == {cs[k].FilePath : k \in 1..Len(cs)}
NoRepeats(seq) == \A i, j \in 1..Len(seq) : seq[i] = seq[j] => i = j

C19_ScanAlwaysCompletes ==
  /\ ret.op \in {"FindCards", "GetDeckTree"} => ret.err = ""
  /\ ret.op = "FindCards" =>
       {pe[1] : pe \in {x \in EntriesOf(ret.args[1]) :
                          x[2].kind \in {"file", "symlink"} /\ NameEndsInMd(x[2])}}
         \subseteq PathsOf(ret.val[1])


\* how many of the cards of cs from position i on are in one of the states
RECURSIVE CountIn(_, _, _)
CountIn(cs, i, states) ==
  IF i > Len(cs) THEN 0
  ELSE (IF cs[i].State \in states THEN 1 ELSE 0) + CountIn(cs, i + 1, states)

\* C20: the statistics are counts: total the number of cards, due the number
\* with due <= now, new those in state New, learning those in Learning or
\* Relearning, review those in Review; so new + learning + review = total
\* and due <= total.
C20_DeckStats ==
  ret.op = "GetDeckStats" =>
    LET cs == ret.args[1]
        stats == ret.val[1]
    IN /\ stats.TotalCards = Len(cs)
       /\ stats.DueCards = Len(Kept(cs, 1, now))
       /\ stats.NewCards = CountIn(cs, 1, {New})
       /\ stats.LearningCards = CountIn(cs, 1, {Learning, Relearning})
       /\ stats.ReviewCards = CountIn(cs, 1, {Review})
       /\ stats.NewCards + stats.LearningCards + stats.ReviewCards = stats.TotalCards
       /\ stats.DueCards <= stats.TotalCards

\* three cards New, Learning, Review, the first one past due: 3, 1, 1, 1, 1
C20_Witness ==
  /\ ret.op = "GetDeckStats"
  /\ Len(ret.args[1]) = 3
  /\ ret.args[1][1].State = New /\ ret.args[1][1].Due < now
  /\ ret.args[1][2].State = Learning /\ ret.args[1][2].Due > now
  /\ ret.args[1][3].State = Review /\ ret.args[1][3].Due > now
  /\ ret.val[1] = [TotalCards |-> 3, DueCards |-> 1, NewCards |-> 1,
                   LearningCards |-> 1, ReviewCards |-> 1]


\* the directories of the deck with their paths relative to the base: the
\* base itself and the directories one and two levels down
DirsOf(root) ==
  {<< <<>>, root >>}
    \cup {pe \in EntriesOf(root) : pe[2].kind = "dir"}
\* the entries of a directory that are cards: not directories, named *.md
\* in any case, and parsing
DirectCards(entries) ==
  {i \in 1..Len(entries) :
     entries[i].kind \in {"file", "symlink"} /\ NameEndsInMd(entries[i])}
EntriesAt(d) == IF d[1] = <<>> THEN d[2] ELSE d[2].entries
\* the key of a directory in the mapping; the base is "" or "."
KeyOf(k) == IF k = DotPath THEN <<>> ELSE k
RECURSIVE SumTotals(_)
SumTotals(m) ==
  IF m = {} THEN 0
  ELSE LET x == CHOOSE x \in m : TRUE
       IN x[2].TotalCards + SumTotals(m \ {x})

ListDecksTools == {"handleListDecks", "SRSServer.handleListDecks"}

\* C21: list_decks returns one entry for every directory under the base,
\* the base included, that directly holds a parseable card, under its
\* relative path; its statistics count the direct children of that
\* directory only; a directory without direct cards has no entry; and the
\* totals add up to the number of cards the recursive enumeration returns.
C21_ListDecks ==
  (ret.op \in ListDecksTools /\ ret.err = "") =>
    LET root == ret.args[1]
        decks == ret.val[1]
        holding == {d \in DirsOf(root) : DirectCards(EntriesAt(d)) # {}}
    IN /\ {KeyOf(x[1]) : x \in decks} = {d[1] : d \in holding}
       /\ Cardinality(decks) = Cardinality(holding)
       /\ \A x \in decks : \A d \in holding :
            KeyOf(x[1]) = d[1] =>
              x[2].TotalCards = Cardinality(DirectCards(EntriesAt(d)))
       /\ SumTotals(decks) = Len(FindCardsWalk(root).cards)


\* ----- claims about operations side by side --------------------------------
AllDone == \A i \in Procs : pc[i].at = "done"

\* C25: nothing guards a card file: rate operations on one path that take
\* their steps in any order all complete, and none detects or reports the
\* other; the file is left with the result of one of them, whole.
C25_NoLocking ==
  /\ \A i \in Procs : pc[i].at = "done" => pc[i].err = ""
  /\ AllDone =>
       \A p \in Paths :
         (\E i \in Procs : pc[i].path = p) =>
           \E i \in Procs : pc[i].path = p /\ files[p] = FsrsLine(pc[i].card)

\* a lost update: every operation rated the same file, each one parsed the
\* file as it was at the start, all completed without an error, and the file
\* holds one scheduling step from that original state
C25_Witness ==
  /\ AllDone
  /\ \A i \in Procs :
       /\ pc[i].path = 1
       /\ pc[i].err = ""
       /\ pc[i].seen = [FilePath |-> 1, Due |-> 0, State |-> Learning,
                        Reps |-> 1, ReviewLog |-> <<>>]
  /\ files[1].kind = "meta"
  /\ files[1].reps = 2


\* ----- claims about turn-based review --------------------------------------
\* an invocation that rated a card: the rating is valid and a session was built
RatedInTurn(r) ==
  /\ r.op = "TurnBased"
  /\ r.built # NoSession
  /\ r.args[1] \in {"1", "2", "3", "4"}

\* the card displayed after the rating is due, and with nothing displayed no
\* card of the session is due
ShowsNextDue(r) ==
  IF Displayed(r) # <<>>
  THEN IsDue(r.final.cards[r.final.current + 1], r.final.at)
  ELSE \A k \in 1..Len(r.final.cards) : ~IsDue(r.final.cards[k], r.final.at)

\* C26: a turn-based invocation with a rating rates the card that the
\* invocation before it displayed, and then displays the next due card,
\* whatever the invocations before it were and whatever their ratings left.
C26_RatesDisplayedCard ==
  [][(RatedInTurn(ret') /\ pc # <<>>) =>
       /\ ret'.built.cards[1].FilePath = pc[1]
       /\ ret'.err = "" => ShowsNextDue(ret')]_vars


\* ----- claims about the interactive review ---------------------------------
\* C27: q pressed while an answer is shown ends the review: StartTUI returns,
\* no card was rated and no program presents a card any more, whatever came
\* before, an edit of the current card included.
C27_QuitEndsSession ==
  [][(pc.at \in {"run", "restored"} /\ pc.m.state = showingAnswer
      /\ ret'.op = "KeyMsg" /\ ret'.args = <<"q">>) =>
       /\ pc'.at = "returned"
       /\ pc'.err = ""
       /\ UNCHANGED <<files, heap, cards, current>>]_vars


\* ----- claims about the configuration --------------------------------------
\* C28: a configuration saved and then loaded comes back with the base deck
\* path it was saved with, whatever the path, the home directory and the
\* paths that begin with its text included.
C28_ConfigRoundTrip ==
  [][((ret.op = "saveConfig" /\ ret'.op = "loadConfig")
      \/ (ret.op = "SaveConfig" /\ ret'.op = "LoadConfig")) =>
       /\ ret'.err = ""
       /\ ret'.val = ret.args]_vars


\* ----- claims about the requeue scan ---------------------------------------
\* the positions still pending: from the cursor to the end of the sequence
Pending == (current + 1)..Len(cards)
PathAt(k) == heap[cards[k]].FilePath

\* C29: no due card is forgotten: right after a successful RateCard at time
\* now, every card at an index up to the old cursor that is due at now has
\* its file path at one of the positions from the new cursor on.
C29_NoDueCardForgotten ==
  [][(ret'.op = "RateCard" /\ ret'.err = "") =>
       \A i \in 1..(current + 1) :
         heap'[cards'[i]].Due <= now' =>
           \E k \in (current' + 1)..Len(cards') :
             heap'[cards'[k]].FilePath = heap'[cards'[i]].FilePath]_vars

\* a card rated earlier in the session came due again and RateCard has just
\* put it back at the end of the sequence
C29_Witness ==
  /\ ret.op = "RateCard"
  /\ ret.err = ""
  /\ \E i \in 1..current :
       /\ heap[cards[i]].Due <= now
       /\ Len(heap[cards[i]].ReviewLog) > 0
       /\ PathAt(Len(cards)) = PathAt(i)
       /\ Len(cards) \in Pending

\* C30: a card is never pending more than once: from a sequence of distinct
\* file paths, whatever RateCard calls follow, each file path is at no more
\* than one of the positions from the cursor to the end.
C30_PendingOnce ==
  \A j, k \in Pending : PathAt(j) = PathAt(k) => j = k


\* ----- claims about the cards presented ------------------------------------
\* C31: only due cards are presented: in a session built over due cards,
\* whatever RateCard calls came before, the card CurrentCard returns is due
\* at the current time.
C31_OnlyDuePresented ==
  CurrentCardOp(cards, current).err = ""
    => heap[CurrentCardOp(cards, current).val[1]].Due <= now


\* ----- claims about the ratings kept ---------------------------------------
\* the scheduling state of a card as a file holds it: due to the second,
\* state, repetitions
SchedulingState(c) ==
  [due |-> FormatRFC3339(c.Due), state |-> c.State, reps |-> c.Reps]

\* C32: no rating is lost within a session: whatever RateCard and
\* UpdateCurrentCard calls came before, every position of the sequence holds,
\* for its file path, the scheduling state that the file holds, so that each
\* rating starts from the state persisted last.
C32_NoRatingLost ==
  \A k \in 1..Len(cards) :
    SchedulingState(heap[cards[k]])
      = SchedulingState(ParseCard(heap[cards[k]].FilePath, files))


\* ----- claims about the end of the session ---------------------------------
\* C33: the session terminates.  While every rating left its card with a due
\* later than that rating and every rating since, the sequence has the length
\* it was built with and HasNext is false exactly when as many successful
\* RateCard calls were made as it had cards; and once every further rating
\* schedules its card in the future, HasNext becomes false after finitely
\* many further successful calls.
C33_SessionTerminates ==
  /\ [](pc.future => /\ Len(cards) = pc.initial
                     /\ HasNextOp(cards, current) <=> pc.rates < pc.initial)
  /\ (pc.phase = "future") ~> ~HasNextOp(cards, current)

\* a session that grew, then came to ratings that schedule in the future,
\* and ended
C33_Witness ==
  /\ pc.phase = "future"
  /\ ~pc.future
  /\ Len(cards) > pc.initial
  /\ pc.rates = Len(cards)
  /\ ~HasNextOp(cards, current)

\* ----- the tool-call server on standard input (mcpSimpleCommand) ----------
\* pc holds the server process: where it stands (before its start, in the
\* loop, returned), the error it returned, and the log of standard input and
\* standard output as the client sees them: the lines that arrived and the
\* lines that were printed, in their order.
\* the size from which on bufio.Scanner gives up on a line (64 KiB in the
\* library), in characters of the model
MaxScanTokenSize == 2
RequestIds == {"null", "1", "2"}
KnownTools == {"srs/get_due_cards", "srs/rate_card", "srs/get_deck_stats",
               "srs/list_decks"}
NoSuchDeck == "nodeck"

\* the lines a client sends: an empty one, text that is not JSON, JSON that
\* is an array, and objects; an object has an id ("null" when it names
\* none), a method, and params that are absent or name a tool with arguments
EmptyLine == [kind |-> "empty", size |-> 0]
TextInput(size) == [kind |-> "text", size |-> size]
ArrayInput == [kind |-> "array", size |-> 1]
RequestLine(id, method, params, size) ==
  [kind |-> "object", id |-> id, method |-> method, params |-> params,
   size |-> size]
ToolParams(name, arguments) ==
  [kind |-> "params", name |-> name, arguments |-> arguments]

ServerParams ==
  {Absent, ToolParams("srs/unknown", <<>>),
   ToolParams("srs/get_deck_stats", <<Absent>>),
   ToolParams("srs/get_deck_stats", <<String(NoSuchDeck)>>),
   ToolParams("srs/rate_card", <<Absent, Absent>>),
   ToolParams("srs/rate_card", <<String(1), Number(6)>>),
   ToolParams("srs/rate_card", <<String(NoSuchPath), Number(6)>>)}

InputLines ==
  {EmptyLine, ArrayInput, TextInput(1), TextInput(MaxScanTokenSize)}
    \cup {RequestLine(id, "tools/call", params, 1) :
            id \in RequestIds, params \in ServerParams}
    \cup {RequestLine(id, "initialize", Absent, 1) : id \in RequestIds}
    \cup {RequestLine("1", "tools/call", ToolParams("srs/get_deck_stats", <<Absent>>),
                      MaxScanTokenSize)}

\* scanner.Scan() on a line that arrived: the line is too long for the
\* buffer from MaxScanTokenSize characters on
ScanOK(line) == line.size < MaxScanTokenSize

\* json.Unmarshal([]byte(line), &req) fails on anything but an object
UnmarshalRequest(line) == [err |-> line.kind # "object"]

\* the MCPResponse lines
NoResult == <<>>
NoError == [code |-> 0, message |-> ""]
MCPError(code, message) == [code |-> code, message |-> message]
MCPResponse(id, result, error) == [id |-> id, result |-> result, error |-> error]
InitResp == MCPResponse("null", <<"capabilities">>, NoError)

In(line) == [io |-> "in", line |-> line]
Out(resp) == [io |-> "out", line |-> resp]

\* handleGetDeckStats: resolveDeckPath, findCards, the two counts
handleGetDeckStats(arguments, fs, t) ==
  IF arguments[1] # Absent /\ arguments[1].text = NoSuchDeck
  THEN [err |-> "error loading cards", val |-> <<>>, files |-> fs]
  ELSE LET found == FindCards(1, {}, fs)
       IN [err |-> "", val |-> <<Len(found), Len(GetDueCards(found, t))>>,
           files |-> fs]

\* handleRateCard as the loop calls it, with a readable and writable deck
handleRateCardOp(arguments, fs, t, days, zone) ==
  LET filePath == arguments[1]
      rating == arguments[2]
      fail(msg) == [err |-> msg, val |-> <<>>, files |-> fs]
  IN IF filePath = Absent THEN fail("file_path is required")
     ELSE IF rating.kind # "number" THEN fail("rating is required (1-4)")
     ELSE IF OutOfRange(IntOf(rating.halves))
     THEN fail("rating must be an integer between 1-4")
     ELSE IF parseCard(filePath.text, fs, "ok").err THEN fail("error parsing card")
     ELSE LET u == updateCard(parseCard(filePath.text, fs, "ok").card, fs,
                              IntOf(rating.halves), t, days, "ok")
          IN [err |-> "", val |-> RateResult(u.card, zone), files |-> u.files]

\* the switch on params.Name
CallTool(params, fs, t, days, zone) ==
  CASE params.name = "srs/rate_card" ->
         handleRateCardOp(params.arguments, fs, t, days, zone)
    [] params.name = "srs/get_deck_stats" ->
         handleGetDeckStats(params.arguments, fs, t)
    [] OTHER -> [err |-> "unknown tool", val |-> <<>>, files |-> fs]

\* the body of the loop from resp.ID = req.ID on: the response printed for
\* a request, the handler's error, and the files afterwards
Respond(req, fs, t, days, zone) ==
  IF req.method # "tools/call"
  THEN [resp |-> MCPResponse(req.id, NoResult, NoError), err |-> "",
        calls |-> <<>>, files |-> fs]
  ELSE IF req.params = Absent
  THEN [resp |-> MCPResponse(req.id, NoResult, MCPError(-32602, "Invalid params")),
        err |-> "", calls |-> <<>>, files |-> fs]
  ELSE LET h == CallTool(req.params, fs, t, days, zone)
       IN [resp |-> IF h.err # ""
                    THEN MCPResponse(req.id, NoResult, MCPError(-32603, h.err))
                    ELSE MCPResponse(req.id, <<"text", h.val>>, NoError),
           err |-> h.err, calls |-> <<req.params.name>>, files |-> h.files]

Server(at, log, err) == [at |-> at, log |-> log, err |-> err]

InitServer ==
  /\ now = 0
  /\ files \in [Paths -> InitMetas]
  /\ heap = <<>>
  /\ cards = <<>>
  /\ current = 0
  /\ faults = 0
  /\ ret = Ret("init", <<>>, "", <<>>, <<>>, NoSession, NoSession)
  /\ pc = Server("start", <<>>, "")

\* mcpSimpleCommand up to the loop: loadConfig, the base deck path, the
\* capabilities message
mcpSimpleCommand(config) ==
  /\ pc.at = "start"
  /\ pc' = CASE config = "load_fails" ->
                  Server("returned", <<>>, "failed to load config")
             [] config = "no_base_deck_path" ->
                  Server("returned", <<>>, "no base deck path configured")
             [] OTHER -> Server("serving", <<Out(InitResp)>>, "")
  /\ ret' = Ret("mcpSimpleCommand", <<config>>, pc'.err, <<>>, <<"loadConfig">>,
                NoSession, NoSession)
  /\ UNCHANGED <<now, files, heap, cards, current, faults>>

Arrived(log) == SelectSeq(log, LAMBDA ev : ev.io = "in")

\* a line arrives on standard input: scanner.Scan() and one turn of the loop
ServeLine(line, days, zone) ==
  /\ pc.at = "serving"
  /\ Len(Arrived(pc.log)) < MaxRequests
  /\ LET served == ScanOK(line) /\ ~UnmarshalRequest(line).err
         r == IF served THEN Respond(line, files, now, days, zone)
              ELSE [err |-> "", calls |-> <<>>, files |-> files]
         rates == served /\ r.calls = <<"srs/rate_card">> /\ r.err = ""
     IN /\ rates => MayRate
        /\ ~rates => days = 1 /\ zone = 0
        /\ IF ~ScanOK(line)
           THEN /\ pc' = Server("returned", Append(pc.log, In(line)), "")
                /\ ret' = Ret("ServeLine", <<line>>, "", <<>>, <<"Scan">>,
                              NoSession, NoSession)
                /\ UNCHANGED files
           ELSE IF line = EmptyLine \/ UnmarshalRequest(line).err
           THEN /\ pc' = Server("serving", Append(pc.log, In(line)), "")
                /\ ret' = Ret("ServeLine", <<line>>, "", <<>>, <<"Scan">>,
                              NoSession, NoSession)
                /\ UNCHANGED files
           ELSE /\ pc' = Server("serving", pc.log \o <<In(line), Out(r.resp)>>, "")
                /\ ret' = Ret("ServeLine", <<line>>, r.err, <<r.resp>>,
                              <<"Scan">> \o r.calls, NoSession, NoSession)
                /\ files' = r.files
  /\ UNCHANGED <<now, heap, cards, current, faults>>

\* standard input ends: scanner.Scan() returns false and the command returns
EndOfInput ==
  /\ pc.at = "serving"
  /\ pc' = Server("returned", pc.log, "")
  /\ ret' = Ret("EndOfInput", <<>>, "", <<>>, <<"Scan">>, NoSession, NoSession)
  /\ UNCHANGED <<now, files, heap, cards, current, faults>>

NextServer ==
  \/ Tick
  \/ \E config \in {"ok", "load_fails", "no_base_deck_path"} : mcpSimpleCommand(config)
  \/ \E line \in InputLines, days \in 1..MaxIntervalDays, zone \in ZoneOffsets :
       ServeLine(line, days, zone)
  \/ EndOfInput

SpecServer == InitServer /\ [][NextServer]_vars

\* C34: after every successful serialize the file holds exactly one line with
\* the metadata prefix, that line is the first, the other lines are the lines
\* of the previous content without the prefix in their order, and serializing
\* the same card state again leaves the text as it is.
PrefixedLines(content) == {k \in 1..Len(content) : HasFSRSPrefix(content[k])}

OtherLines(content) ==
  SelectSeq(SplitLines(content), LAMBDA line : ~HasFSRSPrefix(line))

C34_SerializeOnce ==
  [][(ret'.op = "UpdateFSRSMetadata" /\ ret'.err = "")
       => /\ PrefixedLines(files'[1]) = {1}
          /\ \/ Tail(files'[1]) = OtherLines(files[1])
             \/ OtherLines(files[1]) = <<>> /\ Tail(files'[1]) = <<Blank>>
          /\ files'[1][1] = fsrsLine(ret'.args[1].FSRSCard)
          /\ UpdateFSRSMetadataText(ret'.args[1], files'[1]) = files'[1]]_vars

C34_Witness ==
  /\ ret.op = "UpdateFSRSMetadata"
  /\ ret.err = ""
  /\ Cardinality(PrefixedLines(ret.args[2])) >= 2
  /\ \E k \in 1..Len(ret.args[2]) : ret.args[2][k].kind = "fsrs_open"
  /\ OtherLines(ret.args[2]) # <<>>
  /\ files[1] # ret.args[2]
  /\ PrefixedLines(files[1]) = {1}

\* C35: in the interactive review the session's RateCard is called only while
\* the answer is shown; a digit or q typed while the question is shown is
\* added to the typed answer and neither rates nor quits; after a successful
\* rating with cards remaining the model shows the question of the new
\* current card with an empty typed answer.
Calls(r) == {r.calls[k] : k \in 1..Len(r.calls)}

C35_RateAfterAnswer ==
  [][/\ "RateCard" \in Calls(ret')
          => pc.at \in {"run", "restored"} /\ pc.m.state = showingAnswer
     /\ (ret'.op = "KeyMsg" /\ pc.m.state = showingQuestion
           /\ ret'.args[1] \in {"1", "q"})
          => /\ pc' = [pc EXCEPT !.m.userAnswer = Append(@, ret'.args[1])]
             /\ ret'.calls = <<>>
             /\ UNCHANGED <<cards, current, heap, files>>
     /\ (ret'.op = "KeyMsg" /\ "RateCard" \in Calls(ret')
           /\ current' = current + 1 /\ HasNextOp(cards', current'))
          => /\ pc'.at = pc.at
             /\ pc'.m.state = showingQuestion
             /\ pc'.m.userAnswer = <<>>
             /\ pc'.m.currentCard = <<cards'[current' + 1]>>]_vars

C35_Witness ==
  /\ ret.op = "KeyMsg"
  /\ ret.args = <<"1">>
  /\ "RateCard" \in Calls(ret)
  /\ current = 1
  /\ HasNextOp(cards, current)
  /\ pc.at = "run"
  /\ pc.m.state = showingQuestion
  /\ pc.m.userAnswer = <<>>
  /\ pc.m.currentCard = <<cards[current + 1]>>

\* C36: when the last pending card is rated successfully, StartTUI returns
\* without an error, whichever keys came before, also when the card was
\* edited earlier and is rated in the program started after the edit.
C36_LastRatingEndsNormally ==
  [][(ret'.op = "KeyMsg" /\ "RateCard" \in Calls(ret')
        /\ current' = current + 1 /\ ~HasNextOp(cards', current'))
       => pc'.at = "returned" /\ pc'.err = ""]_vars

\* C37: an edit restores the review: the program started after the editor
\* stands at the same cursor position, on the card parsed again from its
\* file, shows the answer, and has the typed answer of the moment e was
\* pressed, whatever that typed answer contains.
C37_EditRestoresState ==
  [][(pc.at = "editing" /\ pc'.at = "restored")
       => /\ current' = current
          /\ pc'.m.currentCard = <<cards'[current + 1]>>
          /\ heap'[cards'[current + 1]]
               = ParseCard(heap[cards[current + 1]].FilePath, files')
          /\ pc'.m.userAnswer = pc.m.userAnswer
          /\ pc'.m.state = showingAnswer]_vars

\* C38: the tool-call server answers one request at a time in arrival order:
\* every line that arrives and parses as a request gets exactly one response
\* line with its id, printed before the next line is read; a tools/call with
\* an unknown tool or a failing handler gets an error, a successful one a
\* result; an empty line or one that is not JSON gets no response and the
\* loop goes on.
ParsesAsRequest(line) == line.kind = "object"

C38_OneResponsePerRequest ==
  [][ret'.op = "ServeLine"
       => LET line == ret'.args[1]
              resp == pc'.log[Len(pc'.log)].line
          IN IF ParsesAsRequest(line)
             THEN /\ pc'.at = "serving"
                  /\ Len(pc'.log) = Len(pc.log) + 2
                  /\ SubSeq(pc'.log, 1, Len(pc.log) + 1) = Append(pc.log, In(line))
                  /\ pc'.log[Len(pc'.log)].io = "out"
                  /\ resp.id = line.id
                  /\ (line.method = "tools/call" /\ line.params # Absent
                        /\ (line.params.name \notin KnownTools \/ ret'.err # ""))
                       => resp.error # NoError /\ resp.result = NoResult
                  /\ (line.method = "tools/call" /\ line.params # Absent
                        /\ line.params.name \in KnownTools /\ ret'.err = "")
                       => resp.error = NoError /\ resp.result # NoResult
             ELSE /\ pc'.at = "serving"
                  /\ pc'.log = Append(pc.log, In(line))]_vars

====
